---- MODULE Spec2Model ----
(***************************************************************************)
(* Model of the SlugKit pattern front-end: the full recursive-descent      *)
(* parser (PatternParser.parse), the partial parser                        *)
(* (PatternParser.parsePartial) and the suggestion engine                  *)
(* (PatternSuggestions.getSuggestions).                                    *)
(*                                                                         *)
(* A JavaScript string is a sequence of one-character strings.  Cursor     *)
(* positions are 0-based as in the code: the character at position p of s  *)
(* is s[p+1].  An optional value (T | undefined) is a sequence of length   *)
(* 0 or 1.  The field lastParsedToken of the parser is not modelled.       *)
(***************************************************************************)
EXTENDS Integers, Sequences, FiniteSets, TLC

VARIABLES input, cursor, op, parsed, partial, complete, validPrefix, suggestions,
          dictionariesCache, dictionaryTagsCache, calls, fetchCalls,
          created, refreshTimeout, refreshes

\* the key refresh of a SlugKit instance: how fromBackend ended, the field
\* refreshTimeout and the calls of refresh
keyRefresh == <<created, refreshTimeout, refreshes>>

\* the fields of a SlugKit instance, its calls in progress and its requests
slugkit == <<dictionariesCache, dictionaryTagsCache, calls, fetchCalls, keyRefresh>>

vars == <<input, cursor, op, parsed, partial, complete, validPrefix, suggestions,
          slugkit>>

(***************************************************************************)
(* Characters and character classes (the regular-expression classes the    *)
(* code uses: \d, \s, \w, [a-zA-Z_], [<>=!]).                              *)
(***************************************************************************)
LowerLetters == <<"a","b","c","d","e","f","g","h","i","j","k","l","m",
                  "n","o","p","q","r","s","t","u","v","w","x","y","z">>

UpperLetters == <<"A","B","C","D","E","F","G","H","I","J","K","L","M",
                  "N","O","P","Q","R","S","T","U","V","W","X","Y","Z">>

Range(f) == {f[i] : i \in DOMAIN f}

LowerSet == Range(LowerLetters)

UpperSet == Range(UpperLetters)

DigitChars == {"0","1","2","3","4","5","6","7","8","9"}

SpaceChars == {" ", "\t"}

IdentStartChars == LowerSet \cup UpperSet \cup {"_"}

WordChars == IdentStartChars \cup DigitChars

CompareChars == {"<", ">", "=", "!"}

TagMarkChars == {"+", "-"}

Null == ""

(***************************************************************************)
(* String helpers                                                          *)
(***************************************************************************)
Min(a, b) == IF a < b THEN a ELSE b

Max(a, b) == IF a < b THEN b ELSE a

\* s.substring(a, b) / s.slice(a, b) for 0 <= a, with the clamping of substring
Substring(s, a, b) ==
    LET lo == Max(0, Min(Min(a, b), Len(s)))
        hi == Max(0, Min(Max(a, b), Len(s)))
    IN  SubSeq(s, lo + 1, hi)

SubstringFrom(s, a) == Substring(s, a, Len(s))

\* first position q >= p (0-based) whose character is not in class C, or Len(s)
ScanWhile(s, p, C) ==
    CHOOSE q \in p..Len(s) :
        /\ \A r \in (p + 1)..q : s[r] \in C
        /\ (q = Len(s) \/ s[q + 1] \notin C)

\* s.indexOf(c) for a character c, -1 when absent
IndexOfChar(s, c) ==
    IF \E i \in 1..Len(s) : s[i] = c
    THEN (CHOOSE i \in 1..Len(s) : s[i] = c /\ \A j \in 1..(i - 1) : s[j] # c) - 1
    ELSE -1

IsPrefixOf(t, s) == Len(t) <= Len(s) /\ SubSeq(s, 1, Len(t)) = t

OccursAt(s, t, i) == i + Len(t) <= Len(s) /\ SubSeq(s, i + 1, i + Len(t)) = t

\* s.indexOf(t) for a string t, -1 when absent
IndexOf(s, t) ==
    IF \E i \in 0..Len(s) : OccursAt(s, t, i)
    THEN CHOOSE i \in 0..Len(s) : OccursAt(s, t, i) /\ \A j \in 0..(i - 1) : ~OccursAt(s, t, j)
    ELSE -1

DigitValue(c) ==
    CASE c = "0" -> 0 [] c = "1" -> 1 [] c = "2" -> 2 [] c = "3" -> 3 [] c = "4" -> 4
      [] c = "5" -> 5 [] c = "6" -> 6 [] c = "7" -> 7 [] c = "8" -> 8 [] c = "9" -> 9

RECURSIVE ParseInt(_)
\* parseInt(digits, 10) for a non-empty digit string
ParseInt(ds) ==
    IF Len(ds) = 0 THEN 0
    ELSE 10 * ParseInt(SubSeq(ds, 1, Len(ds) - 1)) + DigitValue(ds[Len(ds)])

\* position of a lowercase letter in the alphabet, 1..26
LetterIndex == [c \in LowerSet |-> CHOOSE i \in 1..26 : LowerLetters[i] = c]

\* String.prototype.toLowerCase / toUpperCase on one ASCII letter
LowerOf == [c \in UpperSet |-> LowerLetters[CHOOSE i \in 1..26 : UpperLetters[i] = c]]

UpperOf == [c \in LowerSet |-> UpperLetters[LetterIndex[c]]]

ToLowerChar(c) == IF c \in UpperSet THEN LowerOf[c] ELSE c

ToUpperChar(c) == IF c \in LowerSet THEN UpperOf[c] ELSE c

ToLowerCase(s) == [i \in 1..Len(s) |-> ToLowerChar(s[i])]

ToUpperCase(s) == [i \in 1..Len(s) |-> ToUpperChar(s[i])]

(***************************************************************************)
(* Cursor primitives of PatternParser.  A step that succeeds yields        *)
(* [ok |-> TRUE, pos, ...]; a step that throws yields [ok |-> FALSE, pos,  *)
(* msg, at] where pos is the cursor when the Error was thrown and at is    *)
(* the position the message names (-1: the message names none).            *)
(***************************************************************************)
\* `const x = e; ...rest`: the value of e is computed once and named in the rest
Let(x, F(_)) == F(x)

IsEof(s, p) == p >= Len(s)

Peek(s, p) == IF IsEof(s, p) THEN Null ELSE s[p + 1]

Match(s, p, c) == Peek(s, p) = c

Throw(p, msg, at) == [ok |-> FALSE, pos |-> p, msg |-> msg, at |-> at]

\* expect(c): next() does not advance at end of input, the message names pos - 1
Expect(s, p, c) ==
    IF Match(s, p, c) THEN [ok |-> TRUE, pos |-> p + 1]
    ELSE IF IsEof(s, p) THEN Throw(p, "Expected char", p - 1)
    ELSE Throw(p + 1, "Expected char", p)

SkipWhitespace(s, p) == ScanWhile(s, p, SpaceChars)

ParseNumber(s, p) ==
    Let(ScanWhile(s, p, DigitChars), LAMBDA q :
        IF q = p THEN Throw(p, "Expected number", p)
        ELSE [ok |-> TRUE, pos |-> q, val |-> ParseInt(SubSeq(s, p + 1, q))])

ParseIdentifier(s, p) ==
    IF Peek(s, p) \notin IdentStartChars
    THEN Throw(p, "Expected identifier start", p)
    ELSE Let(ScanWhile(s, p + 1, WordChars), LAMBDA q :
             [ok |-> TRUE, pos |-> q, val |-> SubSeq(s, p + 1, q)])

ParseTag(s, p) ==
    Let(ScanWhile(s, p, WordChars), LAMBDA q :
        IF q = p THEN Throw(p, "Empty tag", p)
        ELSE [ok |-> TRUE, pos |-> q, val |-> SubSeq(s, p + 1, q)])

RECURSIVE ParseTagsFrom(_, _, _, _)
ParseTagsFrom(s, p, include, exclude) ==
    IF IsEof(s, p) \/ Peek(s, p) \notin TagMarkChars
    THEN [ok |-> TRUE, pos |-> p, include |-> include, exclude |-> exclude]
    ELSE Let(ParseTag(s, p + 1), LAMBDA t :
             IF ~t.ok THEN t
             ELSE IF Peek(s, p) = "+"
             THEN ParseTagsFrom(s, SkipWhitespace(s, t.pos), Append(include, t.val), exclude)
             ELSE ParseTagsFrom(s, SkipWhitespace(s, t.pos), include, Append(exclude, t.val)))

ParseTags(s, p) == ParseTagsFrom(s, p, <<>>, <<>>)

ParseComparisonOp(s, p) ==
    IF Match(s, p, "<")
    THEN IF Match(s, p + 1, "=") THEN [ok |-> TRUE, pos |-> p + 2, val |-> "le"]
         ELSE [ok |-> TRUE, pos |-> p + 1, val |-> "lt"]
    ELSE IF Match(s, p, ">")
    THEN IF Match(s, p + 1, "=") THEN [ok |-> TRUE, pos |-> p + 2, val |-> "ge"]
         ELSE [ok |-> TRUE, pos |-> p + 1, val |-> "gt"]
    ELSE IF Match(s, p, "=")
    THEN IF Match(s, p + 1, "=") THEN [ok |-> TRUE, pos |-> p + 2, val |-> "eq"]
         ELSE Throw(p + 1, "Expected '=='", p)
    ELSE IF Match(s, p, "!")
    THEN IF Match(s, p + 1, "=") THEN [ok |-> TRUE, pos |-> p + 2, val |-> "ne"]
         ELSE Throw(p + 1, "Expected '!='", p)
    ELSE Throw(p, "Expected comparison operator", p)

ParseSizeLimit(s, p) ==
    Let(ParseComparisonOp(s, p), LAMBDA o :
        IF ~o.ok THEN o
        ELSE Let(ParseNumber(s, SkipWhitespace(s, o.pos)), LAMBDA n :
                 IF ~n.ok THEN n
                 ELSE [ok |-> TRUE, pos |-> n.pos, val |-> [op |-> o.val, value |-> n.val]]))

\* options[key] = value on a Record<string, string>: keys keep their first
\* insertion order, a repeated key overwrites its value
SetOption(options, key, value) ==
    IF \E i \in 1..Len(options) : options[i][1] = key
    THEN [i \in 1..Len(options) |->
            IF options[i][1] = key THEN <<key, value>> ELSE options[i]]
    ELSE Append(options, <<key, value>>)

RECURSIVE ParseOptionsFrom(_, _, _)
ParseOptionsFrom(s, p, options) ==
    IF IsEof(s, p) THEN [ok |-> TRUE, pos |-> p, val |-> options]
    ELSE Let(ParseIdentifier(s, p), LAMBDA k :
         IF ~k.ok THEN k
         ELSE Let(Expect(s, k.pos, "="), LAMBDA e :
              IF ~e.ok THEN e
              ELSE Let(ScanWhile(s, e.pos, WordChars), LAMBDA q :
                   Let(SetOption(options, k.val, SubSeq(s, e.pos + 1, q)), LAMBDA opts :
                       IF Match(s, q, ",")
                       THEN ParseOptionsFrom(s, SkipWhitespace(s, q + 1), opts)
                       ELSE [ok |-> TRUE, pos |-> q, val |-> opts]))))

ParseOptions(s, p) == ParseOptionsFrom(s, p, <<>>)

(***************************************************************************)
(* Full parser                                                             *)
(***************************************************************************)
\* NumberBase enum values
Dec == "dec"

Hex == "hex"

HexUpper == "HEX"

Roman == "roman"

RomanLower == "ROMAN"

\* called only when the next character is one of d, x, r
ParseShortNumberBase(s, p) ==
    Let(IF IsEof(s, p) THEN p ELSE p + 1, LAMBDA q :
        IF Peek(s, p) = "d" THEN [ok |-> TRUE, pos |-> q, val |-> Dec]
        ELSE IF Peek(s, p) = "x" THEN [ok |-> TRUE, pos |-> q, val |-> Hex]
        ELSE IF Peek(s, p) = "r" THEN [ok |-> TRUE, pos |-> q, val |-> RomanLower]
        ELSE Throw(q, "Invalid short number base", -1))

ParseNumberBase(s, p) ==
    Let(ParseIdentifier(s, p), LAMBDA b :
        IF ~b.ok THEN b
        ELSE IF b.val = <<"d","e","c">> THEN [ok |-> TRUE, pos |-> b.pos, val |-> Dec]
        ELSE IF b.val = <<"h","e","x">> THEN [ok |-> TRUE, pos |-> b.pos, val |-> Hex]
        ELSE IF b.val = <<"H","E","X">> THEN [ok |-> TRUE, pos |-> b.pos, val |-> HexUpper]
        ELSE IF b.val = <<"r","o","m","a","n">>
        THEN [ok |-> TRUE, pos |-> b.pos, val |-> RomanLower]
        ELSE IF b.val = <<"R","O","M","A","N">>
        THEN [ok |-> TRUE, pos |-> b.pos, val |-> Roman]
        ELSE Throw(b.pos, "Invalid number base", -1))

\* The tags / size limit / options triple shared by parseSelector (closer "}")
\* and parseGlobalSettings (closer "]"), starting at the first tag position.
ParseSettingsBody(s, p, closer) ==
    Let(Match(s, p, "+") \/ Match(s, p, "-"), LAMBDA hasTags :
    Let(IF hasTags THEN ParseTags(s, p)
        ELSE [ok |-> TRUE, pos |-> p, include |-> <<>>, exclude |-> <<>>], LAMBDA tags :
    IF ~tags.ok THEN tags
    ELSE
    Let(IF hasTags THEN SkipWhitespace(s, tags.pos) ELSE p, LAMBDA p1 :
    Let(~IsEof(s, p1) /\ Peek(s, p1) \in CompareChars, LAMBDA hasSize :
    Let(IF hasSize THEN ParseSizeLimit(s, p1) ELSE [ok |-> TRUE, pos |-> p1], LAMBDA size :
    IF ~size.ok THEN size
    ELSE
    Let(IF hasSize THEN SkipWhitespace(s, size.pos) ELSE p1, LAMBDA p2 :
    Let(IF Match(s, p2, ",")
        THEN ParseOptions(s, SkipWhitespace(s, p2 + 1))
        ELSE IF /\ Len(tags.include) = 0
                /\ ~hasSize
                /\ ~IsEof(s, p2)
                /\ Peek(s, p2) # closer
        THEN ParseOptions(s, p2)
        ELSE [ok |-> TRUE, pos |-> p2, val |-> <<>>], LAMBDA opts :
    IF ~opts.ok THEN opts
    ELSE [ok |-> TRUE, pos |-> opts.pos,
          includeTags |-> tags.include, excludeTags |-> tags.exclude,
          sizeLimit |-> IF hasSize THEN <<size.val>> ELSE <<>>,
          options |-> opts.val])))))))

EmptyBody(p) ==
    [ok |-> TRUE, pos |-> p, includeTags |-> <<>>, excludeTags |-> <<>>,
     sizeLimit |-> <<>>, options |-> <<>>]

ParseSelector(s, p) ==
    Let(ParseIdentifier(s, p), LAMBDA k :
    IF ~k.ok THEN k
    ELSE
    Let(Match(s, k.pos, "@"), LAMBDA hasLang :
    Let(IF hasLang THEN ParseIdentifier(s, k.pos + 1) ELSE [ok |-> TRUE, pos |-> k.pos],
        LAMBDA l :
    IF ~l.ok THEN l
    ELSE
    Let(IF Match(s, l.pos, ":")
        THEN ParseSettingsBody(s, SkipWhitespace(s, l.pos + 1), "}")
        ELSE EmptyBody(l.pos), LAMBDA body :
    IF ~body.ok THEN body
    ELSE [ok |-> TRUE, pos |-> body.pos,
          val |-> [type |-> "selector", kind |-> k.val,
                   language |-> IF hasLang THEN <<l.val>> ELSE <<>>,
                   includeTags |-> body.includeTags,
                   excludeTags |-> body.excludeTags,
                   sizeLimit |-> body.sizeLimit,
                   options |-> body.options]]))))

\* the identifier "number" has been consumed; p is the position after it
ParseNumberGen(s, p) ==
    IF ~Match(s, p, ":")
    THEN [ok |-> TRUE, pos |-> p, val |-> [type |-> "number", maxLength |-> 1, base |-> Dec]]
    ELSE Let(ParseNumber(s, p + 1), LAMBDA n :
         IF ~n.ok THEN n
         ELSE Let(IF ~IsEof(s, n.pos) /\ Peek(s, n.pos) \in {"d", "x", "r"}
                  THEN ParseShortNumberBase(s, n.pos)
                  ELSE IF Match(s, n.pos, ",")
                  THEN ParseNumberBase(s, SkipWhitespace(s, n.pos + 1))
                  ELSE [ok |-> TRUE, pos |-> n.pos, val |-> Dec], LAMBDA b :
              IF ~b.ok THEN b
              ELSE [ok |-> TRUE, pos |-> b.pos,
                    val |-> [type |-> "number", maxLength |-> n.val, base |-> b.val]]))

\* ParseSpecialCharGen without the validation of the range: start > end passes
ParseSpecialCharGenUnvalidated(s, p) ==
    IF ~Match(s, p, ":")
    THEN [ok |-> TRUE, pos |-> p, val |-> [type |-> "special", minLength |-> 1, maxLength |-> 1]]
    ELSE Let(ParseNumber(s, p + 1), LAMBDA a :
         IF ~a.ok THEN a
         ELSE IF Match(s, a.pos, "-")
         THEN Let(ParseNumber(s, a.pos + 1), LAMBDA b :
                  IF ~b.ok THEN b
                  ELSE [ok |-> TRUE, pos |-> b.pos,
                        val |-> [type |-> "special", minLength |-> a.val,
                                 maxLength |-> b.val]])
         ELSE [ok |-> TRUE, pos |-> a.pos,
               val |-> [type |-> "special", minLength |-> a.val, maxLength |-> a.val]])

\* the identifier "special" has been consumed; p is the position after it
ParseSpecialCharGen(s, p) ==
    IF ~Match(s, p, ":")
    THEN [ok |-> TRUE, pos |-> p, val |-> [type |-> "special", minLength |-> 1, maxLength |-> 1]]
    ELSE Let(ParseNumber(s, p + 1), LAMBDA a :
         IF ~a.ok THEN a
         ELSE IF Match(s, a.pos, "-")
         THEN Let(ParseNumber(s, a.pos + 1), LAMBDA b :
                  IF ~b.ok THEN b
                  ELSE IF a.val > b.val THEN Throw(b.pos, "Invalid range", -1)
                  ELSE [ok |-> TRUE, pos |-> b.pos,
                        val |-> [type |-> "special", minLength |-> a.val,
                                 maxLength |-> b.val]])
         ELSE [ok |-> TRUE, pos |-> a.pos,
               val |-> [type |-> "special", minLength |-> a.val, maxLength |-> a.val]])

Number == <<"n","u","m","b","e","r">>

Special == <<"s","p","e","c","i","a","l">>

ParseElement(s, p) ==
    Let(ParseIdentifier(s, p), LAMBDA id :
        IF ~id.ok THEN id
        ELSE IF id.val = Number THEN ParseNumberGen(s, id.pos)
        ELSE IF id.val = Special THEN ParseSpecialCharGen(s, id.pos)
        ELSE ParseSelector(s, id.pos - Len(id.val)))

ParseGlobalSettings(s, p) ==
    Let(Match(s, p, "@"), LAMBDA hasLang :
    Let(IF hasLang THEN ParseIdentifier(s, p + 1) ELSE [ok |-> TRUE, pos |-> p], LAMBDA l :
    IF ~l.ok THEN l
    ELSE Let(ParseSettingsBody(s, IF hasLang THEN SkipWhitespace(s, l.pos) ELSE p, "]"),
             LAMBDA body :
         IF ~body.ok THEN body
         ELSE [ok |-> TRUE, pos |-> body.pos,
               val |-> [language |-> IF hasLang THEN <<l.val>> ELSE <<>>,
                        includeTags |-> body.includeTags,
                        excludeTags |-> body.excludeTags,
                        sizeLimit |-> body.sizeLimit,
                        options |-> body.options]])))

\* FinalTextChunks without the trailing push: the text after the last
\* placeholder is dropped
FinalTextChunksOmitted(s, elements, textChunks, arbitraryStart, arbitraryEnd) ==
    textChunks

RECURSIVE Unescaped(_)
\* a text with each escape replaced by the character it stands for
Unescaped(t) ==
    IF t = <<>> THEN <<>>
    ELSE IF t[1] = "\\" /\ Len(t) >= 2 THEN <<t[2]>> \o Unescaped(SubSeq(t, 3, Len(t)))
    ELSE <<t[1]>> \o Unescaped(SubSeq(t, 2, Len(t)))

\* FinalTextChunks with the escapes of the final chunk resolved instead of
\* kept as written
FinalTextChunksUnescaped(s, elements, textChunks, arbitraryStart, arbitraryEnd) ==
    IF Len(textChunks) = Len(elements)
    THEN Append(textChunks, Unescaped(Substring(s, arbitraryStart, arbitraryEnd)))
    ELSE textChunks

\* the final text chunk, pushed when the loop of parse() has ended
FinalTextChunks(s, elements, textChunks, arbitraryStart, arbitraryEnd) ==
    IF Len(textChunks) = Len(elements)
    THEN Append(textChunks, Substring(s, arbitraryStart, arbitraryEnd))
    ELSE textChunks

RECURSIVE ParseLoop(_, _, _, _, _)
ParseLoop(s, p, elements, textChunks, arbitraryStart) ==
    IF IsEof(s, p)
    THEN [ok |-> TRUE, elements |-> elements, globalSettings |-> <<>>,
          textChunks |-> FinalTextChunks(s, elements, textChunks, arbitraryStart, Len(s))]
    ELSE IF Match(s, p, "{")
    THEN Let(ParseElement(s, p + 1), LAMBDA e :
         IF ~e.ok THEN e
         ELSE Let(Expect(s, e.pos, "}"), LAMBDA c :
              IF ~c.ok THEN c
              ELSE ParseLoop(s, c.pos, Append(elements, e.val),
                             Append(textChunks, Substring(s, arbitraryStart, p)), c.pos)))
    ELSE IF Match(s, p, "[")
    THEN Let(ParseGlobalSettings(s, p + 1), LAMBDA g :
         IF ~g.ok THEN g
         ELSE Let(Expect(s, g.pos, "]"), LAMBDA c :
              IF ~c.ok THEN c
              ELSE Let(SkipWhitespace(s, c.pos), LAMBDA q :
                   IF ~IsEof(s, q)
                   THEN Throw(q, "Unexpected character after global settings", q)
                   ELSE [ok |-> TRUE, elements |-> elements,
                         globalSettings |-> <<g.val>>,
                         textChunks |-> FinalTextChunks(s, elements, textChunks,
                                                        arbitraryStart, p)])))
    ELSE IF Match(s, p, "\\")
    THEN IF IsEof(s, p + 1)
         THEN Throw(p + 1, "Unexpected end of pattern after escape character", p)
         ELSE IF Peek(s, p + 1) \notin {"{", "}", "\\"}
         THEN Throw(p + 2, "Invalid escaped character", p + 1)
         ELSE ParseLoop(s, p + 2, elements, textChunks, arbitraryStart)
    ELSE IF Match(s, p, "}") THEN Throw(p, "Unmatched closing brace", p)
    ELSE IF Match(s, p, "]") THEN Throw(p, "Unmatched closing bracket", p)
    ELSE ParseLoop(s, p + 1, elements, textChunks, arbitraryStart)

\* PatternParser.parse(pattern)
Parse(s) == ParseLoop(s, 0, <<>>, <<>>, 0)

\* PatternParser.isComplete(pattern) / validate(pattern)
IsComplete(s) == Parse(s).ok

(***************************************************************************)
(* Partial parser                                                          *)
(***************************************************************************)
\* GetExpectedNext with the row of expecting_tag_only equal to the row of
\* expecting_tag_or_size_limit: no switch after a size limit
GetExpectedNextNoSwitch(context) ==
    CASE context = "expecting_tag_or_size_limit" \/ context = "expecting_tag_only" ->
            <<"tag_spec", "comparison_op", "option", "close_brace">>
      [] context = "expecting_tag_identifier" -> <<"identifier">>
      [] context = "expecting_size_limit" -> <<"number", "close_brace">>
      [] context = "expecting_option" -> <<"identifier", "close_brace">>
      [] context = "partial_selector" -> <<"at_sign", "colon", "close_brace">>
      [] context = "in_global_settings" ->
            <<"identifier", "tag_spec", "comparison_op", "close_bracket">>
      [] OTHER -> <<>>

\* PatternParser.getExpectedNext(context): the state -> expected tokens table
GetExpectedNext(context) ==
    CASE context = "expecting_identifier" -> <<"identifier", "close_brace">>
      [] context = "expecting_colon" -> <<"colon">>
      [] context = "expecting_language_identifier" -> <<"identifier">>
      [] context = "expecting_after_language" -> <<"colon", "close_brace">>
      [] context = "expecting_tag_or_size_limit" ->
            <<"tag_spec", "comparison_op", "option", "close_brace">>
      [] context = "expecting_tag_only" -> <<"tag_spec", "option", "close_brace">>
      [] context = "expecting_tag_identifier" -> <<"identifier">>
      [] context = "expecting_size_limit" -> <<"number", "close_brace">>
      [] context = "expecting_number_length" -> <<"number">>
      [] context = "expecting_number_base" -> <<"number_base", "close_brace">>
      [] context = "expecting_special_length" -> <<"number">>
      [] context = "expecting_special_range" -> <<"number", "close_brace">>
      [] context = "expecting_option" -> <<"identifier", "close_brace">>
      [] context = "expecting_close_brace" -> <<"close_brace">>
      [] context = "expecting_close_bracket" -> <<"close_bracket">>
      [] context = "partial_selector" -> <<"at_sign", "colon", "close_brace">>
      [] context = "partial_number_gen" -> <<"colon">>
      [] context = "partial_special_gen" -> <<"colon", "close_brace">>
      [] context = "in_placeholder" -> <<"identifier", "close_brace">>
      [] context = "in_global_settings" ->
            <<"identifier", "tag_spec", "comparison_op", "close_bracket">>
      [] OTHER -> <<>>

\* CreateContextInfo reporting the whole input as parsed so far
CreateContextInfoWholeInput(s, context, p, errorMessage, partialElement) ==
    [context        |-> context,
     position       |-> p,
     parsedSoFar    |-> s,
     expectedNext   |-> GetExpectedNext(context),
     isValid        |-> errorMessage = <<>>,
     errorMessage   |-> errorMessage,
     partialElement |-> partialElement]

\* createContextInfo(errorMessage?, partialElement?) with the parser at
\* position p in context `context`
CreateContextInfo(s, context, p, errorMessage, partialElement) ==
    [context        |-> context,
     position       |-> p,
     parsedSoFar    |-> Substring(s, 0, p),
     expectedNext   |-> GetExpectedNext(context),
     isValid        |-> errorMessage = <<>>,
     errorMessage   |-> errorMessage,
     partialElement |-> partialElement]

RECURSIVE ParsePartialTagsFrom(_, _, _, _)
\* isNull: the code returns null after recording the context in partialContext
ParsePartialTagsFrom(s, p, include, exclude) ==
    IF IsEof(s, p) \/ Peek(s, p) \notin TagMarkChars
    THEN [isNull |-> FALSE, pos |-> p, include |-> include, exclude |-> exclude]
    ELSE IF IsEof(s, p + 1)
    THEN [isNull |-> TRUE,
          info |-> CreateContextInfo(s, "expecting_tag_identifier", p + 1, <<>>, <<>>)]
    ELSE Let(ParseTag(s, p + 1), LAMBDA t :
             IF ~t.ok
             THEN [isNull |-> TRUE,
                   info |-> CreateContextInfo(s, "expecting_tag_identifier", t.pos, <<>>, <<>>)]
             ELSE IF Peek(s, p) = "+"
             THEN ParsePartialTagsFrom(s, SkipWhitespace(s, t.pos),
                                       Append(include, t.val), exclude)
             ELSE ParsePartialTagsFrom(s, SkipWhitespace(s, t.pos),
                                       include, Append(exclude, t.val)))

ParsePartialTags(s, p) == ParsePartialTagsFrom(s, p, <<>>, <<>>)

\* tags.push(...more) on a possibly undefined list
PushTags(existing, more) == IF existing = <<>> THEN <<more>> ELSE <<existing[1] \o more>>

\* "Try to parse options" and the closing createContextInfo of
\* parsePartialSelector / parsePartialGlobalSettings
PartialOptions(s, p, context, pe) ==
    IF Match(s, p, ",")
    THEN Let(ParseOptions(s, SkipWhitespace(s, p + 1)), LAMBDA o :
             IF ~o.ok
             THEN CreateContextInfo(s, "expecting_option", o.pos, <<>>, <<pe>>)
             ELSE CreateContextInfo(s, context, o.pos, <<>>,
                                    <<[pe EXCEPT !.options = <<o.val>>]>>))
    ELSE CreateContextInfo(s, context, p, <<>>, <<pe>>)

\* "Try to parse size limit", then the tags that may follow it
PartialSizeLimit(s, p, context, pe) ==
    IF ~IsEof(s, p) /\ Peek(s, p) \in CompareChars
    THEN Let(ParseSizeLimit(s, p), LAMBDA z :
         IF ~z.ok
         THEN CreateContextInfo(s, "expecting_size_limit", z.pos, <<>>, <<pe>>)
         ELSE Let([pe EXCEPT !.sizeLimit = <<z.val>>], LAMBDA pe1 :
              IF IsEof(s, z.pos)
              THEN CreateContextInfo(s, "expecting_tag_only", z.pos, <<>>, <<pe1>>)
              ELSE IF Match(s, z.pos, "+") \/ Match(s, z.pos, "-")
              THEN Let(ParsePartialTags(s, z.pos), LAMBDA t :
                       IF t.isNull THEN t.info
                       ELSE PartialOptions(s, t.pos, context,
                                [pe1 EXCEPT
                                   !.includeTags = PushTags(pe1.includeTags, t.include),
                                   !.excludeTags = PushTags(pe1.excludeTags, t.exclude)]))
              ELSE PartialOptions(s, z.pos, context, pe1)))
    ELSE PartialOptions(s, p, context, pe)

\* "Try to parse tags" and everything after it
PartialSettingsBody(s, p, context, pe) ==
    IF Match(s, p, "+") \/ Match(s, p, "-")
    THEN Let(ParsePartialTags(s, p), LAMBDA t :
             IF t.isNull THEN t.info
             ELSE PartialSizeLimit(s, t.pos, context,
                      [pe EXCEPT !.includeTags = <<t.include>>,
                                 !.excludeTags = <<t.exclude>>]))
    ELSE PartialSizeLimit(s, p, context, pe)

\* PartialSelectorSettings without skipWhitespace() after the colon
PartialSelectorSettingsNoSkip(s, p, pe) ==
    IF IsEof(s, p) THEN CreateContextInfo(s, "partial_selector", p, <<>>, <<pe>>)
    ELSE IF Match(s, p, ":")
    THEN IF IsEof(s, p + 1)
         THEN CreateContextInfo(s, "expecting_tag_or_size_limit", p + 1, <<>>, <<pe>>)
         ELSE PartialSettingsBody(s, p + 1, "partial_selector", pe)
    ELSE CreateContextInfo(s, "partial_selector", p, <<>>, <<pe>>)

\* after the language part of parsePartialSelector
PartialSelectorSettings(s, p, pe) ==
    IF IsEof(s, p) THEN CreateContextInfo(s, "partial_selector", p, <<>>, <<pe>>)
    ELSE IF Match(s, p, ":")
    THEN Let(SkipWhitespace(s, p + 1), LAMBDA q :
             IF IsEof(s, q)
             THEN CreateContextInfo(s, "expecting_tag_or_size_limit", q, <<>>, <<pe>>)
             ELSE PartialSettingsBody(s, q, "partial_selector", pe))
    ELSE CreateContextInfo(s, "partial_selector", p, <<>>, <<pe>>)

\* parsePartialSelector(kind) with the parser after the kind, at position p
ParsePartialSelector(s, p, kind) ==
    Let([kind |-> kind, language |-> <<>>, includeTags |-> <<>>,
         excludeTags |-> <<>>, sizeLimit |-> <<>>, options |-> <<>>], LAMBDA pe :
    IF IsEof(s, p) THEN CreateContextInfo(s, "partial_selector", p, <<>>, <<pe>>)
    ELSE IF Match(s, p, "@")
    THEN IF IsEof(s, p + 1)
         THEN CreateContextInfo(s, "expecting_language_identifier", p + 1, <<>>, <<pe>>)
         ELSE Let(ParseIdentifier(s, p + 1), LAMBDA l :
              IF ~l.ok
              THEN CreateContextInfo(s, "expecting_language_identifier", l.pos,
                                     <<>>, <<pe>>)
              ELSE Let([pe EXCEPT !.language = <<l.val>>], LAMBDA pe1 :
                   IF IsEof(s, l.pos)
                   THEN CreateContextInfo(s, "expecting_after_language", l.pos,
                                          <<>>, <<pe1>>)
                   ELSE PartialSelectorSettings(s, l.pos, pe1)))
    ELSE PartialSelectorSettings(s, p, pe))

\* parsePartialNumberGen with the parser after "number", at position p
ParsePartialNumberGen(s, p) ==
    Let([maxLength |-> 1, base |-> Dec], LAMBDA pe :
    IF IsEof(s, p) THEN CreateContextInfo(s, "partial_number_gen", p, <<>>, <<pe>>)
    ELSE IF ~Match(s, p, ":")
    THEN CreateContextInfo(s, "partial_number_gen", p, <<>>, <<pe>>)
    ELSE IF IsEof(s, p + 1)
    THEN CreateContextInfo(s, "expecting_number_length", p + 1, <<>>, <<pe>>)
    ELSE Let(ParseNumber(s, p + 1), LAMBDA n :
         IF ~n.ok
         THEN CreateContextInfo(s, "expecting_number_length", n.pos, <<>>, <<pe>>)
         ELSE
         Let([pe EXCEPT !.maxLength = n.val], LAMBDA pe1 :
         IF IsEof(s, n.pos)
         THEN CreateContextInfo(s, "expecting_number_base", n.pos, <<>>, <<pe1>>)
         ELSE IF Peek(s, n.pos) \in {"d", "x", "r"}
         THEN Let(ParseShortNumberBase(s, n.pos), LAMBDA b :
                  CreateContextInfo(s, "partial_number_gen", b.pos, <<>>,
                      <<IF b.ok THEN [pe1 EXCEPT !.base = b.val] ELSE pe1>>))
         ELSE IF Match(s, n.pos, ",")
         THEN Let(ParseNumberBase(s, SkipWhitespace(s, n.pos + 1)), LAMBDA b :
                  IF ~b.ok
                  THEN CreateContextInfo(s, "expecting_option", b.pos, <<>>, <<pe1>>)
                  ELSE CreateContextInfo(s, "partial_number_gen", b.pos, <<>>,
                                         <<[pe1 EXCEPT !.base = b.val]>>))
         ELSE CreateContextInfo(s, "partial_number_gen", n.pos, <<>>, <<pe1>>))))

\* parsePartialSpecialGen with the parser after "special", at position p
ParsePartialSpecialGen(s, p) ==
    Let([minLength |-> 1, maxLength |-> 1], LAMBDA pe :
    IF IsEof(s, p) THEN CreateContextInfo(s, "partial_special_gen", p, <<>>, <<pe>>)
    ELSE IF ~Match(s, p, ":")
    THEN CreateContextInfo(s, "partial_special_gen", p, <<>>, <<pe>>)
    ELSE IF IsEof(s, p + 1)
    THEN CreateContextInfo(s, "expecting_special_length", p + 1, <<>>, <<pe>>)
    ELSE Let(ParseNumber(s, p + 1), LAMBDA a :
         IF ~a.ok
         THEN CreateContextInfo(s, "expecting_special_length", a.pos, <<>>, <<pe>>)
         ELSE
         Let([minLength |-> a.val, maxLength |-> a.val], LAMBDA pe1 :
         IF IsEof(s, a.pos)
         THEN CreateContextInfo(s, "partial_special_gen", a.pos, <<>>, <<pe1>>)
         ELSE IF ~Match(s, a.pos, "-")
         THEN CreateContextInfo(s, "partial_special_gen", a.pos, <<>>, <<pe1>>)
         ELSE IF IsEof(s, a.pos + 1)
         THEN CreateContextInfo(s, "expecting_special_range", a.pos + 1,
                                <<>>, <<pe1>>)
         ELSE Let(ParseNumber(s, a.pos + 1), LAMBDA b :
                  IF ~b.ok
                  THEN CreateContextInfo(s, "expecting_special_range", b.pos,
                                         <<>>, <<pe1>>)
                  ELSE CreateContextInfo(s, "partial_special_gen", b.pos, <<>>,
                                         <<[pe1 EXCEPT !.maxLength = b.val]>>)))))

\* parsePartialElement with the parser after "{", at position p
ParsePartialElement(s, p) ==
    IF IsEof(s, p) THEN CreateContextInfo(s, "expecting_identifier", p, <<>>, <<>>)
    ELSE Let(ParseIdentifier(s, p), LAMBDA id :
             IF ~id.ok THEN CreateContextInfo(s, "expecting_identifier", id.pos, <<>>, <<>>)
             ELSE IF id.val = Number THEN ParsePartialNumberGen(s, id.pos)
             ELSE IF id.val = Special THEN ParsePartialSpecialGen(s, id.pos)
             ELSE ParsePartialSelector(s, id.pos, id.val))

\* parsePartialGlobalSettings with the parser after "[", at position p
ParsePartialGlobalSettings(s, p) ==
    Let([language |-> <<>>, includeTags |-> <<>>, excludeTags |-> <<>>,
         sizeLimit |-> <<>>, options |-> <<>>], LAMBDA pe :
    IF IsEof(s, p) THEN CreateContextInfo(s, "in_global_settings", p, <<>>, <<pe>>)
    ELSE IF Match(s, p, "@")
    THEN IF IsEof(s, p + 1)
         THEN CreateContextInfo(s, "expecting_identifier", p + 1, <<>>, <<pe>>)
         ELSE Let(ParseIdentifier(s, p + 1), LAMBDA l :
                  IF ~l.ok
                  THEN CreateContextInfo(s, "expecting_identifier", l.pos, <<>>, <<pe>>)
                  ELSE PartialSettingsBody(s, l.pos, "in_global_settings",
                                           [pe EXCEPT !.language = <<l.val>>]))
    ELSE PartialSettingsBody(s, p, "in_global_settings", pe))

RECURSIVE ParsePartialInternal(_, _)
\* the result is [threw |-> FALSE, info] or [threw |-> TRUE, pos, msg]; every
\* Error raised below parsePartialInternal is caught below it
ParsePartialInternal(s, p) ==
    IF IsEof(s, p)
    THEN [threw |-> FALSE, info |-> CreateContextInfo(s, "outside_placeholder", p, <<>>, <<>>)]
    ELSE IF Match(s, p, "{") THEN [threw |-> FALSE, info |-> ParsePartialElement(s, p + 1)]
    ELSE IF Match(s, p, "[") THEN [threw |-> FALSE, info |-> ParsePartialGlobalSettings(s, p + 1)]
    ELSE IF Match(s, p, "\\")
    THEN ParsePartialInternal(s, IF IsEof(s, p + 1) THEN p + 1 ELSE p + 2)
    ELSE ParsePartialInternal(s, p + 1)

\* PatternParser.parsePartial(pattern)
ParsePartial(s) ==
    Let(ParsePartialInternal(s, 0), LAMBDA r :
        IF r.threw
        THEN CreateContextInfo(s, "outside_placeholder", r.pos, <<r.msg>>, <<>>)
        ELSE r.info)

\* GetValidPrefix without the isComplete shortcut: always the partial parse
GetValidPrefixPartialOnly(s) == ParsePartial(s).parsedSoFar

\* PatternParser.getValidPrefix(pattern)
GetValidPrefix(s) == IF IsComplete(s) THEN s ELSE ParsePartial(s).parsedSoFar

(***************************************************************************)
(* The dictionary provider (SlugKitInterface): the data getDictionaries()  *)
(* and getDictionaryTags() resolve to.  Only kind and tag are read by the  *)
(* suggestion engine for the text, type and range of a suggestion.         *)
(***************************************************************************)
Noun == <<"n","o","u","n">>

Adjective == <<"a","d","j","e","c","t","i","v","e">>

Adverb == <<"a","d","v","e","r","b">>

Verb == <<"v","e","r","b">>

Dictionaries == <<Noun, Adjective, Adverb, Verb>>

Tag(kind, tag) == [kind |-> kind, tag |-> tag]

DictionaryTags ==
    << Tag(Noun, <<"a","n","i","m","a","l">>),
       Tag(Noun, <<"a","r","t","i","f","a","c","t">>),
       Tag(Noun, <<"p","l","a","n","t">>),
       Tag(Noun, <<"o","b","j","e","c","t">>),
       Tag(Noun, <<"p","e","r","s","o","n">>),
       Tag(Noun, <<"p","l","a","c","e">>),
       Tag(Adjective, <<"c","o","l","o","r">>),
       Tag(Adjective, <<"s","i","z","e">>),
       Tag(Adjective, <<"s","h","a","p","e">>),
       Tag(Adjective, <<"t","e","x","t","u","r","e">>),
       Tag(Adjective, <<"t","a","s","t","e">>),
       Tag(Adverb, <<"m","a","n","n","e","r">>),
       Tag(Adverb, <<"t","i","m","e">>),
       Tag(Adverb, <<"p","l","a","c","e">>),
       Tag(Adverb, <<"d","e","g","r","e","e">>),
       Tag(Adverb, <<"f","r","e","q","u","e","n","c","y">>),
       Tag(Verb, <<"a","c","t","i","o","n">>),
       Tag(Verb, <<"m","o","t","i","o","n">>),
       Tag(Verb, <<"c","o","m","m","u","n","i","c","a","t","i","o","n">>),
       Tag(Verb, <<"e","m","o","t","i","o","n">>),
       Tag(Verb, <<"t","h","o","u","g","h","t">>) >>

(***************************************************************************)
(* Regular expressions of the suggestion engine                            *)
(***************************************************************************)
\* s.filter(P) for a sequence
RECURSIVE SelectSeqBy(_, _)
SelectSeqBy(s, keep) ==
    IF Len(s) = 0 THEN <<>>
    ELSE IF keep[1] THEN <<s[1]>> \o SelectSeqBy(Tail(s), Tail(keep))
    ELSE SelectSeqBy(Tail(s), Tail(keep))

AllIn(s, C) == \A i \in 1..Len(s) : s[i] \in C

\* /[+-]([a-zA-Z0-9_]*)$/ : the match is [found, group] (group 1)
TagInputMatch(s) ==
    IF \E i \in 1..Len(s) : s[i] \in TagMarkChars /\ AllIn(SubSeq(s, i + 1, Len(s)), WordChars)
    THEN LET i == CHOOSE i \in 1..Len(s) :
                    s[i] \in TagMarkChars /\ AllIn(SubSeq(s, i + 1, Len(s)), WordChars)
         IN  [found |-> TRUE, group |-> SubSeq(s, i + 1, Len(s))]
    ELSE [found |-> FALSE, group |-> <<>>]

\* end (0-based, exclusive) of a match of /([<>=!]+)\s*\d+/ starting at i, or -1
LengthConstraintEnd(s, i) ==
    LET j == ScanWhile(s, i, CompareChars)
        k == ScanWhile(s, j, SpaceChars)
        m == ScanWhile(s, k, DigitChars)
    IN  IF j > i /\ m > k THEN m ELSE -1

\* settingsContent.match(/([<>=!]+)\s*\d+/): [found, text] with text = match[0]
LengthConstraintMatch(s) ==
    IF \E i \in 0..(Len(s) - 1) : LengthConstraintEnd(s, i) # -1
    THEN LET i == CHOOSE i \in 0..(Len(s) - 1) :
                    /\ LengthConstraintEnd(s, i) # -1
                    /\ \A j \in 0..(i - 1) : LengthConstraintEnd(s, j) = -1
         IN  [found |-> TRUE, text |-> Substring(s, i, LengthConstraintEnd(s, i))]
    ELSE [found |-> FALSE, text |-> <<>>]

\* /[=!<>]=?\s*\d+/.test(s)
HasSizeConstraint(s) ==
    \E i \in 0..(Len(s) - 1) :
        /\ s[i + 1] \in CompareChars
        /\ LET j == IF Match(s, i + 1, "=") THEN i + 2 ELSE i + 1
               k == ScanWhile(s, j, SpaceChars)
           IN  ~IsEof(s, k) /\ Peek(s, k) \in DigitChars

\* /^[+-]\w*$/.test(s)
IsTagMarker(s) == Len(s) >= 1 /\ s[1] \in TagMarkChars /\ AllIn(Tail(s), WordChars)

\* /[+-]\w+$/.test(s)
EndsWithTag(s) ==
    \E i \in 1..(Len(s) - 1) : s[i] \in TagMarkChars /\ AllIn(SubSeq(s, i + 1, Len(s)), WordChars)

\* /[+-]\w+/.test(s)
ContainsTag(s) == \E i \in 1..(Len(s) - 1) : s[i] \in TagMarkChars /\ s[i + 1] \in WordChars

\* /[<>=!]/.test(s)
ContainsCompareChar(s) == \E i \in 1..Len(s) : s[i] \in CompareChars

\* /\d+$/.test(s)
EndsWithDigits(s) == Len(s) >= 1 /\ s[Len(s)] \in DigitChars

\* /\d+[dxXrR]$/.test(s)
EndsWithBase(s) ==
    Len(s) >= 2 /\ s[Len(s)] \in {"d", "x", "X", "r", "R"} /\ s[Len(s) - 1] \in DigitChars

\* /\d+-\d+$/.test(s)
EndsWithRange(s) ==
    \E i \in 2..(Len(s) - 1) :
        s[i] = "-" /\ s[i - 1] \in DigitChars /\ AllIn(SubSeq(s, i + 1, Len(s)), DigitChars)

\* /^[=!<>]$/.test(s)
IsSingleCompareChar(s) == Len(s) = 1 /\ s[1] \in CompareChars

\* /[=!<>]{2}$/.test(s)
EndsWithTwoCompareChars(s) ==
    Len(s) >= 2 /\ s[Len(s)] \in CompareChars /\ s[Len(s) - 1] \in CompareChars

\* s.split(' ').pop() || ''
AfterLastSpace(s) ==
    IF \E i \in 1..Len(s) : s[i] = " "
    THEN LET i == CHOOSE i \in 1..Len(s) : s[i] = " " /\ \A j \in (i + 1)..Len(s) : s[j] # " "
         IN  SubSeq(s, i + 1, Len(s))
    ELSE s

\* s.trim() === ''
IsBlank(s) == AllIn(s, SpaceChars)

\* s.endsWith(' ')
EndsWithSpace(s) == Len(s) >= 1 /\ s[Len(s)] = " "

\* GetUsedTags finding no tag: nothing is filtered out of the available tags
GetUsedTagsNone(s) == <<>>

\* getUsedTags: the groups of the matches of /[+-]([a-zA-Z0-9_]+)/g, in order
GetUsedTags(s) ==
    LET starts == [i \in 1..Len(s) |->
                      s[i] \in TagMarkChars /\ i < Len(s) /\ s[i + 1] \in WordChars]
        words  == [i \in 1..Len(s) |->
                      IF starts[i] THEN SubSeq(s, i + 1, ScanWhile(s, i, WordChars)) ELSE <<>>]
    IN  SelectSeqBy(words, starts)

(***************************************************************************)
(* Suggestion engine (PatternSuggestions).  A suggestion is                *)
(* [text, type, replaceRange |-> [start, end]]; its description is not     *)
(* modelled.                                                               *)
(***************************************************************************)
\* analyzeContext(pattern, cursorPosition); isNull stands for the null result
AnalyzeContext(pattern, cursorPosition) ==
    LET top    == Min(cursorPosition, Len(pattern))
        braces == {i \in 1..top : pattern[i] \in {"{", "}"}}
        last   == IF braces = {} THEN 0 ELSE CHOOSE i \in braces : \A j \in braces : j <= i
    IN  IF last = 0 \/ pattern[last] = "}" THEN [isNull |-> TRUE]
        ELSE
        LET placeholderStart == last - 1
            closers == {i \in cursorPosition..(Len(pattern) - 1) : pattern[i + 1] = "}"}
            placeholderEnd ==
                IF closers = {} THEN Len(pattern)
                ELSE CHOOSE i \in closers : \A j \in closers : i <= j
            placeholderContent == Substring(pattern, placeholderStart + 1, placeholderEnd)
            relativeCursorPosition == cursorPosition - placeholderStart - 1
            colonIndex == IndexOfChar(placeholderContent, ":")
            isInSettings == colonIndex # -1 /\ relativeCursorPosition >= colonIndex
            afterColon == isInSettings /\ relativeCursorPosition # colonIndex
            settingsContent == SubstringFrom(placeholderContent, colonIndex + 1)
            cursorInSettings == relativeCursorPosition - colonIndex - 1
            lengthConstraintMatch == LengthConstraintMatch(settingsContent)
            lengthConstraintStart == IndexOf(settingsContent, lengthConstraintMatch.text)
            beforeCursor == Substring(settingsContent, 0, cursorInSettings)
            afterLastSpace == AfterLastSpace(beforeCursor)
            generatorName == Substring(placeholderContent, 0, colonIndex)
            isTaglessGenerator == generatorName = Number \/ generatorName = Special
            isInTags ==
                /\ afterColon
                /\ IF lengthConstraintMatch.found
                   THEN cursorInSettings < lengthConstraintStart
                   ELSE IF isTaglessGenerator THEN IsTagMarker(afterLastSpace)
                   ELSE IF IsTagMarker(afterLastSpace) THEN TRUE
                   ELSE IF IsBlank(beforeCursor) \/ EndsWithSpace(beforeCursor) THEN FALSE
                   ELSE TRUE
            isInLengthConstraint ==
                /\ afterColon
                /\ lengthConstraintMatch.found
                /\ ~(cursorInSettings < lengthConstraintStart)
        IN  [isNull               |-> FALSE,
             pattern              |-> pattern,
             cursorPosition       |-> cursorPosition,
             placeholderStart     |-> placeholderStart,
             placeholderEnd       |-> placeholderEnd,
             placeholderContent   |-> placeholderContent,
             isInSettings         |-> isInSettings,
             isInTags             |-> isInTags,
             isInLengthConstraint |-> isInLengthConstraint,
             isInOptions          |-> FALSE]

\* calculateReplaceRange(context, suggestionType)
CalculateReplaceRange(context, suggestionType) ==
    IF suggestionType = "generator"
    THEN [start |-> context.placeholderStart + 1, end |-> context.cursorPosition]
    ELSE IF suggestionType = "tag"
    THEN LET tagInputMatch == TagInputMatch(context.placeholderContent)
         IN  IF tagInputMatch.found /\ tagInputMatch.group # <<>>
             THEN [start |-> context.cursorPosition - Len(tagInputMatch.group),
                   end   |-> context.cursorPosition]
             ELSE [start |-> context.cursorPosition, end |-> context.cursorPosition]
    ELSE [start |-> context.cursorPosition, end |-> context.cursorPosition]

\* createSuggestion(text, type, context)
CreateSuggestion(text, type, context) ==
    [text |-> text, type |-> type, replaceRange |-> CalculateReplaceRange(context, type)]

\* OpenBraceSuggestion replacing the character before the cursor
OpenBraceSuggestionOffByOne(cursorPosition) ==
    [text |-> <<"{">>, type |-> "symbol",
     replaceRange |-> [start |-> cursorPosition - 1, end |-> cursorPosition]]

\* the suggestion returned when the cursor is outside any placeholder
OpenBraceSuggestion(cursorPosition) ==
    [text |-> <<"{">>, type |-> "symbol",
     replaceRange |-> [start |-> cursorPosition, end |-> cursorPosition]]

CompareOperatorTexts ==
    << <<"=","=">>, <<"!","=">>, <<"<">>, <<"<","=">>, <<">">>, <<">","=">> >>

OperatorSuggestions(context) ==
    [i \in 1..Len(CompareOperatorTexts) |->
        CreateSuggestion(CompareOperatorTexts[i], "operator", context)]

\* the nine-entry list "+ - == != < <= > >= }"
TagOrSizeOrCloseSuggestions(context) ==
    << CreateSuggestion(<<"+">>, "symbol", context),
       CreateSuggestion(<<"-">>, "symbol", context) >>
    \o OperatorSuggestions(context)
    \o << CreateSuggestion(<<"}">>, "symbol", context) >>

\* the three-entry list "+ - }"
ContinuationSuggestions(context) ==
    << CreateSuggestion(<<"+">>, "symbol", context),
       CreateSuggestion(<<"-">>, "symbol", context),
       CreateSuggestion(<<"}">>, "symbol", context) >>

IsDictionarySelector(context) ==
    LET colonIndex == IndexOfChar(context.placeholderContent, ":")
        generatorName == Substring(context.placeholderContent, 0, colonIndex)
    IN  colonIndex # -1 /\ generatorName # Number /\ generatorName # Special

IsNumberGenerator(context) == IsPrefixOf(Number, context.placeholderContent)

IsSpecialGenerator(context) == IsPrefixOf(Special, context.placeholderContent)

\* getSettingsSuggestions(context)
GetSettingsSuggestions(context) ==
    LET placeholderContent == context.placeholderContent
        colonIndex == IndexOfChar(placeholderContent, ":")
        settingsContent == SubstringFrom(placeholderContent, colonIndex + 1)
        cursorInSettings ==
            context.cursorPosition - context.placeholderStart - 1 - colonIndex - 1
        beforeCursor == Substring(settingsContent, 0, cursorInSettings)
    IN  IF IsDictionarySelector(context)
        THEN IF EndsWithTag(beforeCursor) THEN TagOrSizeOrCloseSuggestions(context)
             ELSE IF ContainsTag(beforeCursor) /\ ~ContainsCompareChar(beforeCursor)
             THEN OperatorSuggestions(context)
             ELSE TagOrSizeOrCloseSuggestions(context)
        ELSE IF IsNumberGenerator(context) /\ EndsWithDigits(placeholderContent)
        THEN << CreateSuggestion(<<"d">>, "base", context),
                CreateSuggestion(<<"x">>, "base", context),
                CreateSuggestion(<<"X">>, "base", context),
                CreateSuggestion(<<"r">>, "base", context),
                CreateSuggestion(<<"R">>, "base", context) >>
        ELSE IF IsNumberGenerator(context) /\ EndsWithBase(placeholderContent)
        THEN << CreateSuggestion(<<"}">>, "symbol", context) >>
        ELSE IF IsSpecialGenerator(context) /\ EndsWithDigits(placeholderContent)
        THEN IF EndsWithRange(placeholderContent)
             THEN << CreateSuggestion(<<"}">>, "symbol", context) >>
             ELSE << CreateSuggestion(<<"-">>, "symbol", context),
                     CreateSuggestion(<<"}">>, "symbol", context) >>
        ELSE <<>>

\* usedTags.includes(tag)
Includes(list, x) == \E i \in 1..Len(list) : list[i] = x

TagSuggestions(tags, context) ==
    [i \in 1..Len(tags) |-> CreateSuggestion(tags[i].tag, "tag", context)]

\* getTagSuggestions(context)
GetTagSuggestions(context) ==
    LET placeholderContent == context.placeholderContent
        colonIndex == IndexOfChar(placeholderContent, ":")
        generatorName == Substring(placeholderContent, 0, colonIndex)
        dictionaryTags ==
            SelectSeqBy(DictionaryTags,
                [i \in 1..Len(DictionaryTags) |->
                    ToLowerCase(DictionaryTags[i].kind) = ToLowerCase(generatorName)])
        usedTags == GetUsedTags(placeholderContent)
        availableTags ==
            SelectSeqBy(dictionaryTags,
                [i \in 1..Len(dictionaryTags) |-> ~Includes(usedTags, dictionaryTags[i].tag)])
        tagInputMatch == TagInputMatch(placeholderContent)
        partialTag == tagInputMatch.group
        exactTagMatch ==
            \E i \in 1..Len(dictionaryTags) :
                ToLowerCase(dictionaryTags[i].tag) = ToLowerCase(partialTag)
        matchingTags ==
            SelectSeqBy(availableTags,
                [i \in 1..Len(availableTags) |->
                    IsPrefixOf(ToLowerCase(partialTag), ToLowerCase(availableTags[i].tag))])
        settingsContent == SubstringFrom(placeholderContent, colonIndex + 1)
        cursorInSettings ==
            context.cursorPosition - context.placeholderStart - 1 - colonIndex - 1
        beforeCursor == Substring(settingsContent, 0, cursorInSettings)
    IN  IF colonIndex = -1 THEN <<>>
        ELSE IF tagInputMatch.found
        THEN IF partialTag = <<>> THEN TagSuggestions(availableTags, context)
             ELSE IF exactTagMatch THEN TagOrSizeOrCloseSuggestions(context)
             ELSE TagSuggestions(matchingTags, context)
        ELSE IF IsSingleCompareChar(beforeCursor)
        THEN << CreateSuggestion(<<"=">>, "operator", context) >>
        ELSE IF EndsWithTwoCompareChars(beforeCursor) THEN <<>>
        ELSE IF HasSizeConstraint(settingsContent) THEN ContinuationSuggestions(context)
        ELSE TagSuggestions(availableTags, context)

\* getLengthConstraintSuggestions(context)
GetLengthConstraintSuggestions(context) ==
    LET colonIndex == IndexOfChar(context.placeholderContent, ":")
        settingsContent == SubstringFrom(context.placeholderContent, colonIndex + 1)
    IN  IF colonIndex = -1 THEN <<>>
        ELSE IF HasSizeConstraint(settingsContent) THEN ContinuationSuggestions(context)
        ELSE OperatorSuggestions(context)

\* text.charAt(0).toUpperCase() + text.slice(1).toLowerCase()
ToTitleCase(text) ==
    [i \in 1..Len(text) |-> IF i = 1 THEN ToUpperChar(text[i]) ELSE ToLowerChar(text[i])]

\* detectCaseType(inputText), for a non-empty inputText
DetectCaseType(inputText) ==
    IF inputText = ToLowerCase(inputText) THEN "lower"
    ELSE IF inputText = ToUpperCase(inputText) THEN "upper"
    ELSE IF /\ inputText[1] = ToUpperChar(inputText[1])
            /\ Tail(inputText) = ToLowerCase(Tail(inputText))
    THEN "title"
    ELSE "mixed"

\* PreserveUserPattern continuing in the case of the user's last character
PreserveUserPatternSameCase(baseName, userInput) ==
    IF Len(userInput) = 0 THEN baseName
    ELSE
    LET lastUserChar == userInput[Len(userInput)]
        startsWithUpper == lastUserChar = ToUpperChar(lastUserChar)
    IN  [j \in 1..Len(baseName) |->
            LET i == j - 1
            IN  IF i < Len(userInput)
                THEN IF userInput[j] \in UpperSet THEN ToUpperChar(baseName[j])
                     ELSE IF userInput[j] \in LowerSet THEN ToLowerChar(baseName[j])
                     ELSE baseName[j]
                ELSE IF (i - Len(userInput)) % 2 = (IF startsWithUpper THEN 0 ELSE 1)
                THEN ToUpperChar(baseName[j])
                ELSE ToLowerChar(baseName[j])]

\* preserveUserPattern(baseName, userInput)
PreserveUserPattern(baseName, userInput) ==
    IF Len(userInput) = 0 THEN baseName
    ELSE
    LET lastUserChar == userInput[Len(userInput)]
        startsWithUpper == lastUserChar = ToUpperChar(lastUserChar)
    IN  [j \in 1..Len(baseName) |->
            LET i == j - 1
            IN  IF i < Len(userInput)
                THEN IF userInput[j] \in UpperSet THEN ToUpperChar(baseName[j])
                     ELSE IF userInput[j] \in LowerSet THEN ToLowerChar(baseName[j])
                     ELSE baseName[j]
                ELSE IF (i - Len(userInput)) % 2 = (IF startsWithUpper THEN 1 ELSE 0)
                THEN ToUpperChar(baseName[j])
                ELSE ToLowerChar(baseName[j])]

\* generateAlternatingCase(baseName, startWithLowercase)
GenerateAlternatingCase(baseName, startWithLowercase) ==
    [j \in 1..Len(baseName) |->
        IF ((j - 1) % 2 = 0) = startWithLowercase
        THEN ToLowerChar(baseName[j])
        ELSE ToUpperChar(baseName[j])]

\* GetCasingGroup without the group of number and special
GetCasingGroupNoSpecial(text) ==
    IF text = ToLowerCase(text) THEN 1
    ELSE IF text = ToUpperCase(text) THEN 2
    ELSE IF text[1] = ToUpperChar(text[1]) /\ Tail(text) = ToLowerCase(Tail(text)) THEN 3
    ELSE 4

\* getCasingGroup(text) of sortSuggestionsByCasing
GetCasingGroup(text) ==
    IF text = ToLowerCase(text)
    THEN IF text = Number \/ text = Special THEN 0 ELSE 1
    ELSE IF text = ToUpperCase(text) THEN 2
    ELSE IF text[1] = ToUpperChar(text[1]) /\ Tail(text) = ToLowerCase(Tail(text)) THEN 3
    ELSE 4

\* collation weight of a character: "_" before digits before letters
CharWeight(c) ==
    IF ToLowerChar(c) \in LowerSet THEN 11 + LetterIndex[ToLowerChar(c)]
    ELSE IF c \in DigitChars THEN 1 + DigitValue(c)
    ELSE 0

RECURSIVE FirstPrimaryDifference(_, _, _)
\* first index from i where a and b differ by more than case, 0 when there is none
FirstPrimaryDifference(a, b, i) ==
    IF i > Min(Len(a), Len(b)) THEN 0
    ELSE IF CharWeight(a[i]) # CharWeight(b[i]) THEN i
    ELSE FirstPrimaryDifference(a, b, i + 1)

RECURSIVE FirstCaseDifference(_, _, _)
\* first index from i where a and b differ, 0 when there is none
FirstCaseDifference(a, b, i) ==
    IF i > Min(Len(a), Len(b)) THEN 0
    ELSE IF a[i] # b[i] THEN i
    ELSE FirstCaseDifference(a, b, i + 1)

\* a.localeCompare(b) for words over [A-Za-z0-9_]: letters are compared without
\* case first; words equal up to case are ordered at their first difference,
\* the lowercase letter first
LocaleCompare(a, b) ==
    Let(FirstPrimaryDifference(a, b, 1), LAMBDA i :
        IF i # 0 THEN (IF CharWeight(a[i]) < CharWeight(b[i]) THEN -1 ELSE 1)
        ELSE IF Len(a) # Len(b) THEN (IF Len(a) < Len(b) THEN -1 ELSE 1)
        ELSE Let(FirstCaseDifference(a, b, 1), LAMBDA k :
                 IF k # 0 THEN (IF a[k] \in LowerSet THEN -1 ELSE 1) ELSE 0))

\* the comparator of sortSuggestionsByCasing
CompareByCasing(a, b) ==
    Let(GetCasingGroup(a.text), LAMBDA groupA :
    Let(GetCasingGroup(b.text), LAMBDA groupB :
        IF groupA # groupB THEN groupA - groupB ELSE LocaleCompare(a.text, b.text)))

\* insert x into the sorted list after every element that does not follow it
InsertSorted(sorted, x) ==
    LET before == {i \in 1..Len(sorted) : CompareByCasing(sorted[i], x) <= 0}
        k == IF before = {} THEN 0 ELSE CHOOSE i \in before : \A j \in before : j <= i
    IN  SubSeq(sorted, 1, k) \o <<x>> \o SubSeq(sorted, k + 1, Len(sorted))

RECURSIVE SortSuggestionsByCasing(_)
\* sortSuggestionsByCasing(suggestions): Array.prototype.sort is stable
SortSuggestionsByCasing(list) ==
    IF Len(list) = 0 THEN <<>>
    ELSE InsertSorted(SortSuggestionsByCasing(SubSeq(list, 1, Len(list) - 1)), list[Len(list)])

RECURSIVE Flatten(_)
Flatten(lists) == IF Len(lists) = 0 THEN <<>> ELSE lists[1] \o Flatten(Tail(lists))

\* the texts getAllGeneratorSuggestions pushes, in the order it pushes them:
\* number, special, then four case variants of every dictionary
AllGeneratorTexts ==
    << Number, Special >>
    \o Flatten([i \in 1..Len(Dictionaries) |->
                  << ToLowerCase(Dictionaries[i]),
                     ToUpperCase(ToLowerCase(Dictionaries[i])),
                     ToTitleCase(ToLowerCase(Dictionaries[i])),
                     GenerateAlternatingCase(ToLowerCase(Dictionaries[i]), FALSE) >>])

\* the order sortSuggestionsByCasing gives them: the comparator reads only
\* the text of a suggestion, so the order is the same for every context
AllGeneratorOrder ==
    SortSuggestionsByCasing([i \in 1..Len(AllGeneratorTexts) |->
                                [text |-> AllGeneratorTexts[i]]])

\* getAllGeneratorSuggestions(context)
GetAllGeneratorSuggestions(context) ==
    [i \in 1..Len(AllGeneratorOrder) |->
        CreateSuggestion(AllGeneratorOrder[i].text, "generator", context)]

\* the suggestions getMatchingGeneratorSuggestions pushes for one dictionary
MatchingVariants(dictName, inputText, context) ==
    IF ~IsPrefixOf(ToLowerCase(inputText), dictName) THEN <<>>
    ELSE IF Len(inputText) = 1
    THEN IF inputText[1] = ToLowerChar(inputText[1])
         THEN << CreateSuggestion(dictName, "generator", context),
                 CreateSuggestion(GenerateAlternatingCase(dictName, TRUE),
                                  "generator", context) >>
         ELSE << CreateSuggestion(ToUpperCase(dictName), "generator", context),
                 CreateSuggestion(ToTitleCase(dictName), "generator", context),
                 CreateSuggestion(GenerateAlternatingCase(dictName, FALSE),
                                  "generator", context) >>
    ELSE LET caseType == DetectCaseType(inputText)
         IN  IF caseType = "lower" THEN << CreateSuggestion(dictName, "generator", context) >>
             ELSE IF caseType = "upper"
             THEN << CreateSuggestion(ToUpperCase(dictName), "generator", context) >>
             ELSE IF caseType = "title"
             THEN << CreateSuggestion(ToTitleCase(dictName), "generator", context) >>
             ELSE << CreateSuggestion(PreserveUserPattern(dictName, inputText),
                                      "generator", context) >>

\* suggestions.filter((s, index, self) => index === self.findIndex(t => t.text === s.text))
RemoveDuplicates(list) ==
    SelectSeqBy(list,
        [i \in 1..Len(list) |-> \A j \in 1..(i - 1) : list[j].text # list[i].text])

\* getMatchingGeneratorSuggestions(inputText, context)
GetMatchingGeneratorSuggestions(inputText, context) ==
    LET perDict == [i \in 1..Len(Dictionaries) |->
                       MatchingVariants(ToLowerCase(Dictionaries[i]), inputText, context)]
        number  == IF IsPrefixOf(ToLowerCase(inputText), Number)
                   THEN << CreateSuggestion(Number, "generator", context) >> ELSE <<>>
        special == IF IsPrefixOf(ToLowerCase(inputText), Special)
                   THEN << CreateSuggestion(Special, "generator", context) >> ELSE <<>>
    IN  SortSuggestionsByCasing(RemoveDuplicates(Flatten(perDict) \o number \o special))

\* getGeneratorNameSuggestions(context)
GetGeneratorNameSuggestions(context) ==
    LET inputText == Substring(context.placeholderContent, 0,
                               context.cursorPosition - context.placeholderStart - 1)
    IN  IF inputText = <<>> THEN GetAllGeneratorSuggestions(context)
        ELSE IF inputText = Number THEN << CreateSuggestion(<<":">>, "symbol", context) >>
        ELSE IF inputText = Special
        THEN << CreateSuggestion(<<"}">>, "symbol", context),
                CreateSuggestion(<<":">>, "symbol", context) >>
        ELSE IF \E i \in 1..Len(Dictionaries) :
                    ToLowerCase(Dictionaries[i]) = ToLowerCase(inputText)
        THEN << CreateSuggestion(<<"}">>, "symbol", context),
                CreateSuggestion(<<"@">>, "symbol", context),
                CreateSuggestion(<<":">>, "symbol", context) >>
        ELSE GetMatchingGeneratorSuggestions(inputText, context)

\* getSuggestions(pattern, cursorPosition)
GetSuggestions(pattern, cursorPosition) ==
    LET context == AnalyzeContext(pattern, cursorPosition)
    IN  IF context.isNull THEN << OpenBraceSuggestion(cursorPosition) >>
        ELSE IF /\ context.isInSettings
                /\ ~context.isInTags
                /\ ~context.isInLengthConstraint
                /\ ~context.isInOptions
        THEN GetSettingsSuggestions(context)
        ELSE IF ~context.isInSettings THEN GetGeneratorNameSuggestions(context)
        ELSE IF context.isInTags THEN GetTagSuggestions(context)
        ELSE IF context.isInLengthConstraint THEN GetLengthConstraintSuggestions(context)
        ELSE GetSettingsSuggestions(context)

(***************************************************************************)
(* Inputs.  A pattern is a concatenation of at most MaxTokens tokens of a  *)
(* token set (each specification has its own, chosen for the operation it  *)
(* exercises).  Every call of the public API is self-contained (static     *)
(* methods on a fresh parser, no state shared between calls), so a         *)
(* behaviour is one input followed by one call.                            *)
(***************************************************************************)
MaxTokens == 4

MaxCursorOvershoot == 1

MaxDigits == 2

MaxSpaces == 1

RECURSIVE TokenStrings(_, _)
TokenStrings(tokens, n) ==
    IF n = 0 THEN {<<>>}
    ELSE LET shorter == TokenStrings(tokens, n - 1)
         IN  shorter \cup {s \o t : s \in shorter, t \in tokens}

\* tokens for the full parser: literal text, escapes, placeholders, settings
ParseTokens ==
    { <<"{","n","o","u","n","}">>, <<"{","n">>, <<"{">>, <<"}">>, <<"[">>, <<"]">>,
      <<"x">>, <<"\\">>, <<":">>, <<"+","a">>, <<">","5">>, <<" ">> }

\* tokens for the partial parser: the constructs of a placeholder, piecewise
PartialTokens ==
    { <<"{","n","o","u","n",":">>, <<"{","n","u","m","b","e","r",":">>,
      <<"{">>, <<"[">>, <<"+">>, <<"a">>, <<">","5">>, <<"=">>, <<"5">>,
      <<" ">>, <<",">> }

\* tokens for the suggestion engine: a dictionary selector and its settings
SuggestTokens ==
    { <<"{","v","e","r","b",":">>, <<"+">>, <<"-">>, <<"m","o","t","i","o","n">>,
      <<"c","o","m","m","u","n","i","c">>, <<" ">>, <<">","5">>, <<"}">> }

NoResult == <<>>

\* new SlugKit(): both caches and refreshTimeout null, no call made
NewSlugKit ==
    /\ dictionariesCache = <<>>
    /\ dictionaryTagsCache = <<>>
    /\ calls = <<>>
    /\ fetchCalls = <<>>
    /\ created = "no"
    /\ refreshTimeout = <<>>
    /\ refreshes = <<>>

InitWith(inputs) ==
    /\ input \in inputs
    /\ cursor = 0
    /\ op = "none"
    /\ parsed = NoResult
    /\ partial = NoResult
    /\ complete = NoResult
    /\ validPrefix = NoResult
    /\ suggestions = NoResult
    /\ NewSlugKit

\* PatternParser.parse(input)
DoParse ==
    /\ op = "none"
    /\ op' = "parse"
    /\ parsed' = Parse(input)
    /\ UNCHANGED <<input, cursor, partial, complete, validPrefix, suggestions, slugkit>>

\* PatternParser.parsePartial(input)
DoParsePartial ==
    /\ op = "none"
    /\ op' = "parsePartial"
    /\ partial' = ParsePartial(input)
    /\ UNCHANGED <<input, cursor, parsed, complete, validPrefix, suggestions, slugkit>>

\* PatternParser.isComplete(input)
DoIsComplete ==
    /\ op = "none"
    /\ op' = "isComplete"
    /\ complete' = IsComplete(input)
    /\ UNCHANGED <<input, cursor, parsed, partial, validPrefix, suggestions, slugkit>>

\* PatternParser.getValidPrefix(input)
DoGetValidPrefix ==
    /\ op = "none"
    /\ op' = "getValidPrefix"
    /\ validPrefix' = GetValidPrefix(input)
    /\ UNCHANGED <<input, cursor, parsed, partial, complete, suggestions, slugkit>>

\* PatternSuggestions.getSuggestions(input, c) for a cursor c >= 0
DoGetSuggestions ==
    /\ op = "none"
    /\ \E c \in 0..(Len(input) + MaxCursorOvershoot) :
        /\ cursor' = c
        /\ suggestions' = GetSuggestions(input, c)
    /\ op' = "getSuggestions"
    /\ UNCHANGED <<input, parsed, partial, complete, validPrefix, slugkit>>

\* the full parser and the two utilities built on it
InitParse == InitWith(TokenStrings(ParseTokens, MaxTokens))

NextParse == DoParse \/ DoIsComplete \/ DoGetValidPrefix

SpecParse == InitParse /\ [][NextParse]_vars

\* the partial parser
InitPartial == InitWith(TokenStrings(PartialTokens, MaxTokens))

NextPartial == DoParsePartial

SpecPartial == InitPartial /\ [][NextPartial]_vars

\* the partial parser on the unfinished placeholders of the state table: a
\* kind, an optional language, a tag mark, a comparison operator, digits
Kinds == { <<"n","o","u","n">>, <<"V","e","r","b">>, <<"n","_","1">> }

Languages == { <<"e","n">>, <<"f","r","_","C","A">> }

CompareOperators ==
    { <<"=","=">>, <<"!","=">>, <<"<">>, <<"<","=">>, <<">">>, <<">","=">> }

DigitStrings == TokenStrings({ <<"0">>, <<"7">> }, MaxDigits) \ {<<>>}

Blanks == TokenStrings({ <<" ">>, <<"\t">> }, MaxSpaces)

Open(k) == <<"{">> \o k

PartialSelectorInputs == {Open(k) : k \in Kinds}

LanguageIdentifierInputs == {Open(k) \o <<"@">> : k \in Kinds}

AfterLanguageInputs == {Open(k) \o <<"@">> \o l : k \in Kinds, l \in Languages}

TagOrSizeLimitInputs == {Open(k) \o <<":">> \o w : k \in Kinds, w \in Blanks}

TagIdentifierInputs == {Open(k) \o <<":">> \o m : k \in Kinds, m \in {<<"+">>, <<"-">>}}

SizeLimitInputs == {Open(k) \o <<":">> \o o : k \in Kinds, o \in CompareOperators}

TagOnlyInputs ==
    {Open(k) \o <<":">> \o o \o w \o n :
        k \in Kinds, o \in CompareOperators, w \in Blanks, n \in DigitStrings}

NumberLengthInputs == {Open(Number) \o <<":">>}

NumberBaseInputs == {Open(Number) \o <<":">> \o n : n \in DigitStrings}

SpecialLengthInputs == {Open(Special) \o <<":">>}

SpecialRangeInputs == {Open(Special) \o <<":">> \o n \o <<"-">> : n \in DigitStrings}

StateInputs ==
    PartialSelectorInputs \cup LanguageIdentifierInputs \cup AfterLanguageInputs
    \cup TagOrSizeLimitInputs \cup TagIdentifierInputs \cup SizeLimitInputs
    \cup TagOnlyInputs \cup NumberLengthInputs \cup NumberBaseInputs
    \cup SpecialLengthInputs \cup SpecialRangeInputs

InitStates == InitWith(StateInputs)

NextStates == DoParsePartial

SpecStates == InitStates /\ [][NextStates]_vars

\* the suggestion engine
InitSuggest == InitWith(TokenStrings(SuggestTokens, MaxTokens))

NextSuggest == DoGetSuggestions

SpecSuggest == InitSuggest /\ [][NextSuggest]_vars

(***************************************************************************)
(* Properties of the full parser (SpecParse)                               *)
(***************************************************************************)
\* C1: for every input that parse accepts, textChunks has exactly one more
\* entry than elements (also with no placeholder at all, and when the input
\* ends in a global-settings block)
C1_TextChunksOneMoreThanElements ==
    (op = "parse" /\ parsed.ok) => Len(parsed.textChunks) = Len(parsed.elements) + 1

\* an accepted input with a placeholder that ends in a global-settings block
C1_Witness ==
    /\ op = "parse"
    /\ parsed.ok
    /\ Len(parsed.elements) >= 1
    /\ parsed.globalSettings # <<>>
    /\ Len(parsed.textChunks) = Len(parsed.elements) + 1

\* C9: getValidPrefix(p) is a prefix of p, and it is p itself whenever
\* parse(p) does not throw
C9_ValidPrefixIsPrefix ==
    op = "getValidPrefix" =>
        /\ Len(validPrefix) <= Len(input)
        /\ validPrefix = SubSeq(input, 1, Len(validPrefix))
        /\ (Parse(input).ok => validPrefix = input)

\* an input the full parser rejects whose valid prefix is a proper, non-empty
\* prefix
C9_Witness ==
    /\ op = "getValidPrefix"
    /\ ~Parse(input).ok
    /\ validPrefix # <<>>
    /\ Len(validPrefix) < Len(input)
    /\ validPrefix = SubSeq(input, 1, Len(validPrefix))

(***************************************************************************)
(* Properties of the partial parser (SpecPartial)                          *)
(***************************************************************************)
ContextInfoFields ==
    {"context", "position", "parsedSoFar", "expectedNext", "isValid",
     "errorMessage", "partialElement"}

\* C5: parsePartial returns a ParserContextInfo for every input and never
\* throws, also for inputs the full parser rejects; 0 <= position <=
\* len(input) and parsedSoFar = input[0..position)
C5_PartialAlwaysReturns ==
    op = "parsePartial" =>
        /\ DOMAIN partial = ContextInfoFields
        /\ partial.position \in 0..Len(input)
        /\ partial.parsedSoFar = SubSeq(input, 1, partial.position)

\* an input the full parser rejects, which the partial parser leaves midway
C5_Witness ==
    /\ op = "parsePartial"
    /\ ~Parse(input).ok
    /\ partial.position > 0
    /\ partial.position < Len(input)
    /\ partial.parsedSoFar = SubSeq(input, 1, partial.position)

\* the settings of a placeholder that opens the input: the text after "{k:"
SettingsOfFirstPlaceholder(s) ==
    IF Len(s) >= 3 /\ s[1] = "{" /\ IndexOfChar(s, ":") >= 2
    THEN SubSeq(s, IndexOfChar(s, ":") + 2, Len(s))
    ELSE <<>>

KindOfFirstPlaceholder(s) == SubSeq(s, 2, IndexOfChar(s, ":"))

IsIdentifier(w) == Len(w) >= 1 /\ w[1] \in IdentStartChars /\ AllIn(w, WordChars)

\* an empty tag followed by more text: "{k:+" and then a character no tag has
EmptyTagThenText(s) ==
    /\ IsIdentifier(KindOfFirstPlaceholder(s))
    /\ KindOfFirstPlaceholder(s) \notin {Number, Special}
    /\ Len(SettingsOfFirstPlaceholder(s)) >= 2
    /\ SettingsOfFirstPlaceholder(s)[1] \in TagMarkChars
    /\ SettingsOfFirstPlaceholder(s)[2] \notin WordChars

\* a lone "=" followed by another character: "{k:=" and then not "="
LoneEqualsThenText(s) ==
    /\ IsIdentifier(KindOfFirstPlaceholder(s))
    /\ KindOfFirstPlaceholder(s) \notin {Number, Special}
    /\ Len(SettingsOfFirstPlaceholder(s)) >= 2
    /\ SettingsOfFirstPlaceholder(s)[1] = "="
    /\ SettingsOfFirstPlaceholder(s)[2] # "="

\* a misspelt long number base: "{number:n," and then a word that begins no base
MisspeltNumberBase(s) ==
    /\ KindOfFirstPlaceholder(s) = Number
    /\ LET t == SettingsOfFirstPlaceholder(s)
           d == ScanWhile(t, 0, DigitChars)
       IN  /\ d >= 1
           /\ Len(t) >= d + 2
           /\ t[d + 1] = ","
           /\ t[d + 2] \in IdentStartChars \ {"d", "h", "H", "r", "R"}

DefiniteSyntaxError(s) ==
    EmptyTagThenText(s) \/ LoneEqualsThenText(s) \/ MisspeltNumberBase(s)

\* C6: an input with a definite syntax error (an empty tag followed by more
\* text, a lone = followed by another character, a misspelt long number
\* base) makes parsePartial return isValid = false with an error message
C6_DefiniteErrorsAreInvalid ==
    (op = "parsePartial" /\ DefiniteSyntaxError(input)) =>
        (~partial.isValid /\ partial.errorMessage # <<>>)

\* a comparison operator followed by digits, with optional blanks between
\* them, somewhere in the text t
HasOperatorAndDigits(t) ==
    \E i \in 1..Len(t) :
        /\ t[i] \in CompareChars
        /\ LET k == ScanWhile(t, ScanWhile(t, i, CompareChars), SpaceChars)
           IN  k < Len(t) /\ t[k + 1] \in DigitChars

\* the input opens with a dictionary selector whose settings hold a size limit
SelectorWithSizeLimit(s) ==
    /\ IsIdentifier(KindOfFirstPlaceholder(s))
    /\ KindOfFirstPlaceholder(s) \notin {Number, Special}
    /\ HasOperatorAndDigits(SettingsOfFirstPlaceholder(s))

\* C8: once a size limit (operator plus digits) has been completed inside a
\* selector, expectedNext never holds comparison_op, whatever follows the
\* size limit in that placeholder
C8_NoComparisonAfterSizeLimit ==
    (op = "parsePartial" /\ SelectorWithSizeLimit(input)) =>
        \A i \in 1..Len(partial.expectedNext) : partial.expectedNext[i] # "comparison_op"

\* a selector whose size limit is followed by a tag, all parsed
C8_Witness ==
    /\ op = "parsePartial"
    /\ SelectorWithSizeLimit(input)
    /\ SettingsOfFirstPlaceholder(input)[1] \in CompareChars
    /\ partial.position = Len(input)
    /\ partial.partialElement # <<>>
    /\ partial.partialElement[1].sizeLimit # <<>>
    /\ partial.partialElement[1].includeTags # <<>>
    /\ \A i \in 1..Len(partial.expectedNext) : partial.expectedNext[i] # "comparison_op"

(***************************************************************************)
(* The state table of the partial parser (SpecStates)                      *)
(***************************************************************************)
\* the state and the expected tokens stated for each shape of input
StateTable ==
    << [inputs |-> PartialSelectorInputs, context |-> "partial_selector",
        expected |-> {"at_sign", "colon", "close_brace"}],
       [inputs |-> LanguageIdentifierInputs, context |-> "expecting_language_identifier",
        expected |-> {"identifier"}],
       [inputs |-> AfterLanguageInputs, context |-> "expecting_after_language",
        expected |-> {"colon", "close_brace"}],
       [inputs |-> TagOrSizeLimitInputs, context |-> "expecting_tag_or_size_limit",
        expected |-> {"tag_spec", "comparison_op", "option", "close_brace"}],
       [inputs |-> TagIdentifierInputs, context |-> "expecting_tag_identifier",
        expected |-> {"identifier"}],
       [inputs |-> SizeLimitInputs, context |-> "expecting_size_limit",
        expected |-> {"number", "close_brace"}],
       [inputs |-> TagOnlyInputs, context |-> "expecting_tag_only",
        expected |-> {"tag_spec", "option", "close_brace"}],
       [inputs |-> NumberLengthInputs, context |-> "expecting_number_length",
        expected |-> {"number"}],
       [inputs |-> NumberBaseInputs, context |-> "expecting_number_base",
        expected |-> {"number_base", "close_brace"}],
       [inputs |-> SpecialLengthInputs, context |-> "expecting_special_length",
        expected |-> {"number"}],
       [inputs |-> SpecialRangeInputs, context |-> "expecting_special_range",
        expected |-> {"number", "close_brace"}] >>

C2_ReplaceRangeWithinPattern ==
    op = "getSuggestions" =>
        \A i \in 1..Len(suggestions) :
            /\ 0 <= suggestions[i].replaceRange.start
            /\ suggestions[i].replaceRange.start <= suggestions[i].replaceRange.end
            /\ suggestions[i].replaceRange.end <= cursor
            /\ suggestions[i].replaceRange.end <= Len(input)

\* the braces at the positions cursor-1, cursor-2, ..., 0 of the pattern
BracesBefore(p, c) == {i \in 1..Min(c, Len(p)) : p[i] \in {"{", "}"}}

LastOf(S) == CHOOSE i \in S : \A j \in S : j <= i

FirstOf(S) == CHOOSE i \in S : \A j \in S : i <= j

\* scanning backward from cursor-1 meets "}" before any "{", or no "{" at all
OutsidePlaceholder(p, c) ==
    BracesBefore(p, c) = {} \/ p[LastOf(BracesBefore(p, c))] = "}"

\* the text of the placeholder around the cursor: after its "{" and up to the
\* first "}" at or after the cursor, or to the end of the pattern
EnclosingText(p, c) ==
    LET closers == {i \in (c + 1)..Len(p) : p[i] = "}"}
    IN  SubSeq(p, LastOf(BracesBefore(p, c)) + 1,
               IF closers = {} THEN Len(p) ELSE FirstOf(closers) - 1)

\* the settings of that placeholder: the text after its first colon
EnclosingSettings(p, c) ==
    IF IndexOfChar(EnclosingText(p, c), ":") = -1 THEN <<>>
    ELSE SubstringFrom(EnclosingText(p, c), IndexOfChar(EnclosingText(p, c), ":") + 1)

\* C3: for a placeholder whose settings contain a completed size limit (a
\* comparison operator followed by digits) and every cursor inside it, no
\* suggestion has the text ==, !=, <, <=, > or >=
C3_NoOperatorAfterSizeLimit ==
    (/\ op = "getSuggestions"
     /\ ~OutsidePlaceholder(input, cursor)
     /\ HasOperatorAndDigits(EnclosingSettings(input, cursor))) =>
        \A i \in 1..Len(suggestions) : suggestions[i].text \notin CompareOperators

\* the words written after a + or a - in the text t
WordsAfterMark(t) ==
    {SubSeq(t, i + 1, ScanWhile(t, i, WordChars)) :
        i \in {j \in 1..Len(t) : t[j] \in TagMarkChars}} \ {<<>>}

\* C4: every tag-type suggestion for a placeholder has a text that does not
\* already occur after a + or - anywhere in that placeholder
C4_NoUsedTagSuggested ==
    (op = "getSuggestions" /\ ~OutsidePlaceholder(input, cursor)) =>
        \A i \in 1..Len(suggestions) :
            suggestions[i].type = "tag" =>
                suggestions[i].text \notin WordsAfterMark(EnclosingText(input, cursor))

\* tags are suggested for a placeholder that already uses the tag "motion"
C4_Witness ==
    /\ op = "getSuggestions"
    /\ ~OutsidePlaceholder(input, cursor)
    /\ <<"m","o","t","i","o","n">> \in WordsAfterMark(EnclosingText(input, cursor))
    /\ \E i \in 1..Len(suggestions) : suggestions[i].type = "tag"
    /\ \A i \in 1..Len(suggestions) : suggestions[i].text # <<"m","o","t","i","o","n">>

\* C10: when scanning backward from cursor-1 meets a } before any {, or no {
\* at all (cursor 0, the empty pattern, a cursor past the end of a closed
\* placeholder), getSuggestions returns exactly one suggestion: text {, type
\* symbol, replaceRange.start = replaceRange.end = cursor
C10_OnlyOpenBraceOutside ==
    (op = "getSuggestions" /\ OutsidePlaceholder(input, cursor)) =>
        /\ Len(suggestions) = 1
        /\ suggestions[1].text = <<"{">>
        /\ suggestions[1].type = "symbol"
        /\ suggestions[1].replaceRange.start = cursor
        /\ suggestions[1].replaceRange.end = cursor

\* a cursor past the end of a pattern that ends with a closed placeholder
C10_Witness ==
    /\ op = "getSuggestions"
    /\ cursor > Len(input)
    /\ Len(input) >= 2
    /\ input[Len(input)] = "}"
    /\ \E i \in 1..Len(input) : input[i] = "{"
    /\ Len(suggestions) = 1
    /\ suggestions[1].text = <<"{">>
    /\ suggestions[1].replaceRange = [start |-> cursor, end |-> cursor]

(***************************************************************************)
(* The dictionary caches of a SlugKit instance.  getDictionaries and       *)
(* getDictionaryTags are async: a call that finds its cache null suspends  *)
(* at `await this.fetch(...)` and again at `await response.json()`, and    *)
(* other calls on the instance run in between.  A call is a record         *)
(*   method   - the method called                                          *)
(*   pc       - "fetch" | "json" | "resolved" | "rejected"                 *)
(*   response - what the backend answered, once it has (length 0 or 1)     *)
(*   value    - the data the promise resolved to, or the error it          *)
(*              rejected with                                              *)
(* and fetchCalls lists the paths this.fetch was called with.              *)
(***************************************************************************)
MaxCalls == 3

\* JSON bodies the backend may answer with: arrays of entries (kinds), and an
\* object that is not an array
Payloads ==
    { [isArray |-> TRUE, items |-> <<>>],
      [isArray |-> TRUE, items |-> <<"noun">>],
      [isArray |-> TRUE, items |-> <<"noun", "verb">>],
      [isArray |-> FALSE, items |-> <<>>] }

\* errors this.fetch rejects with
FetchErrors == {"Network error", "Authentication failed"}

\* the error response.json() rejects with on a body that is not JSON
JsonError == "SyntaxError"

\* what one request can end in
Outcomes ==
    {[ok |-> TRUE, parses |-> TRUE, body |-> d, error |-> ""] : d \in Payloads}
    \cup {[ok |-> TRUE, parses |-> FALSE, body |-> [isArray |-> FALSE, items |-> <<>>],
           error |-> JsonError]}
    \cup {[ok |-> FALSE, parses |-> FALSE, body |-> [isArray |-> FALSE, items |-> <<>>],
           error |-> e] : e \in FetchErrors}

\* Array.isArray(data) ? data : []
ArrayOrEmpty(data) == IF data.isArray THEN data.items ELSE <<>>

EndpointOf(method) ==
    IF method = "getDictionaries" THEN "GET_DICTIONARY_STATS" ELSE "GET_TAGS"

CacheOf(method) ==
    IF method = "getDictionaries" THEN dictionariesCache ELSE dictionaryTagsCache

\* the call record of getDictionaries / getDictionaryTags at its first await,
\* or at its return when the cache is not null
BeginCall(method, cache) ==
    IF cache # <<>>
    THEN [method |-> method, pc |-> "resolved", response |-> <<>>, value |-> cache[1]]
    ELSE [method |-> method, pc |-> "fetch", response |-> <<>>, value |-> <<>>]

\* this.fetch('GET', path, '') is called only when the cache is null
RequestsAfter(method, cache) ==
    IF cache # <<>> THEN fetchCalls ELSE Append(fetchCalls, EndpointOf(method))

\* slugkit.getDictionaries(), up to its first await
GetDictionaries ==
    /\ Len(calls) < MaxCalls
    /\ calls' = Append(calls, BeginCall("getDictionaries", dictionariesCache))
    /\ fetchCalls' = RequestsAfter("getDictionaries", dictionariesCache)
    /\ UNCHANGED <<dictionariesCache, dictionaryTagsCache>>
    /\ UNCHANGED <<input, cursor, op, parsed, partial, complete, validPrefix, suggestions>>
    /\ UNCHANGED keyRefresh

\* slugkit.getDictionaryTags(), up to its first await
GetDictionaryTags ==
    /\ Len(calls) < MaxCalls
    /\ calls' = Append(calls, BeginCall("getDictionaryTags", dictionaryTagsCache))
    /\ fetchCalls' = RequestsAfter("getDictionaryTags", dictionaryTagsCache)
    /\ UNCHANGED <<dictionariesCache, dictionaryTagsCache>>
    /\ UNCHANGED <<input, cursor, op, parsed, partial, complete, validPrefix, suggestions>>
    /\ UNCHANGED keyRefresh

\* the backend answers the request of call i
BackendResponds ==
    \E i \in DOMAIN calls, o \in Outcomes :
        /\ calls[i].pc = "fetch"
        /\ calls[i].response = <<>>
        /\ calls' = [calls EXCEPT ![i].response = <<o>>]
        /\ UNCHANGED <<dictionariesCache, dictionaryTagsCache, fetchCalls>>
        /\ UNCHANGED <<input, cursor, op, parsed, partial, complete, validPrefix, suggestions>>
        /\ UNCHANGED keyRefresh

\* call i resumes after `await this.fetch(...)`: a rejection passes through
\* the two catch blocks (logged, thrown again); else response.json() is awaited
AfterFetch ==
    \E i \in DOMAIN calls :
        /\ calls[i].pc = "fetch"
        /\ calls[i].response # <<>>
        /\ calls' = IF calls[i].response[1].ok
                    THEN [calls EXCEPT ![i].pc = "json"]
                    ELSE [calls EXCEPT ![i].pc = "rejected",
                                       ![i].value = calls[i].response[1].error]
        /\ UNCHANGED <<dictionariesCache, dictionaryTagsCache, fetchCalls>>
        /\ UNCHANGED <<input, cursor, op, parsed, partial, complete, validPrefix, suggestions>>
        /\ UNCHANGED keyRefresh

\* the cache as call i leaves it when its data has arrived
StoreInCache(method, data, cache, own) == IF own = method THEN <<data>> ELSE cache

\* call i resumes after `await response.json()`: the data is stored in the
\* cache of its method and returned; a rejection is thrown on
AfterJson ==
    \E i \in DOMAIN calls :
        /\ calls[i].pc = "json"
        /\ IF calls[i].response[1].parses
           THEN Let(ArrayOrEmpty(calls[i].response[1].body), LAMBDA data :
                /\ calls' = [calls EXCEPT ![i].pc = "resolved", ![i].value = data]
                /\ dictionariesCache' =
                      StoreInCache(calls[i].method, data, dictionariesCache, "getDictionaries")
                /\ dictionaryTagsCache' =
                      StoreInCache(calls[i].method, data, dictionaryTagsCache, "getDictionaryTags"))
           ELSE /\ calls' = [calls EXCEPT ![i].pc = "rejected",
                                          ![i].value = calls[i].response[1].error]
                /\ UNCHANGED <<dictionariesCache, dictionaryTagsCache>>
        /\ UNCHANGED fetchCalls
        /\ UNCHANGED <<input, cursor, op, parsed, partial, complete, validPrefix, suggestions>>
        /\ UNCHANGED keyRefresh

InitCache == InitWith({<<>>})

NextCache ==
    GetDictionaries \/ GetDictionaryTags \/ BackendResponds \/ AfterFetch \/ AfterJson

SpecCache == InitCache /\ [][NextCache]_vars

(***************************************************************************)
(* Properties of the dictionary caches (SpecCache)                         *)
(***************************************************************************)
\* the calls begun in this step
Begun == {i \in DOMAIN calls' : i \notin DOMAIN calls}

\* the calls that reject in this step
Failing == {i \in DOMAIN calls : calls[i].pc # "rejected" /\ calls'[i].pc = "rejected"}

\* C11: once a call of getDictionaries (respectively getDictionaryTags) has
\* resolved, every call of that method begun later on the instance resolves
\* to the same data, and calls this.fetch no more
C11_LaterCallsUseCache ==
    [][\A i \in Begun : \A j \in DOMAIN calls :
          (calls[j].method = calls'[i].method /\ calls[j].pc = "resolved")
          => /\ calls'[i].pc = "resolved"
             /\ calls'[i].value = calls[j].value
             /\ fetchCalls' = fetchCalls]_vars

\* C12: when the request of a call fails, the call rejects with the error of
\* the request and the cache of its method is null afterwards, so that a call
\* begun next (which finds the cache null) sends a new request
C12_FailureLeavesCacheNull ==
    [][/\ \A i \in Failing :
             /\ calls'[i].value = calls[i].response[1].error
             /\ (IF calls[i].method = "getDictionaries"
                 THEN dictionariesCache' ELSE dictionaryTagsCache') = <<>>
       /\ \A i \in Begun :
             CacheOf(calls'[i].method) = <<>>
             => /\ calls'[i].pc = "fetch"
                /\ fetchCalls' = Append(fetchCalls, EndpointOf(calls'[i].method))]_vars

(***************************************************************************)
(* The generators: inputs made of one number or special placeholder,       *)
(* well-formed or not (SpecGenerators)                                     *)
(***************************************************************************)
\* short base letters, valid (d x r) and not
ShortBaseSpellings == { <<"d">>, <<"x">>, <<"r">>, <<"R">>, <<"b">> }

\* long base identifiers, valid (dec hex HEX roman ROMAN) and not
LongBaseSpellings ==
    { <<"d","e","c">>,
      <<"h","e","x">>,
      <<"H","E","X">>,
      <<"r","o","m","a","n">>,
      <<"R","O","M","A","N">>,
      <<"R","o","m","a","n">>,
      <<"d">>,
      <<"o","c","t","a","l">> }

Placeholder(body) == <<"{">> \o body \o <<"}">>

\* {number}, {number:N}, {number:Nb}, {number:N,<blanks>base}, and the
\* malformed {number:}, {number:N,}, {number:Nb,base}
NumberGenInputs ==
    {Placeholder(Number), Placeholder(Number \o <<":">>)}
    \cup {Placeholder(Number \o <<":">> \o n) : n \in DigitStrings}
    \cup {Placeholder(Number \o <<":">> \o n \o b) :
             n \in DigitStrings, b \in ShortBaseSpellings}
    \cup {Placeholder(Number \o <<":">> \o n \o <<",">> \o w \o b) :
             n \in DigitStrings, w \in Blanks, b \in LongBaseSpellings \cup {<<>>}}
    \cup {Placeholder(Number \o <<":">> \o n \o a \o <<",">> \o b) :
             n \in DigitStrings, a \in ShortBaseSpellings, b \in LongBaseSpellings}

\* {special}, {special:A}, {special:A-B}, and the malformed {special:},
\* {special:A-}, {special:-B}, {special:A--B}
SpecialGenInputs ==
    {Placeholder(Special), Placeholder(Special \o <<":">>)}
    \cup {Placeholder(Special \o <<":">> \o a) : a \in DigitStrings}
    \cup {Placeholder(Special \o <<":">> \o a \o <<"-">> \o b) :
             a \in DigitStrings, b \in DigitStrings \cup {<<>>}}
    \cup {Placeholder(Special \o <<":", "-">> \o b) : b \in DigitStrings}
    \cup {Placeholder(Special \o <<":">> \o a \o <<"-", "-">> \o b) :
             a \in DigitStrings, b \in DigitStrings}

InitGenerators == InitWith(NumberGenInputs \cup SpecialGenInputs)

NextGenerators == DoParse \/ DoParsePartial

SpecGenerators == InitGenerators /\ [][NextGenerators]_vars

(***************************************************************************)
(* Properties of the generators (SpecGenerators)                           *)
(***************************************************************************)
\* the base each spelling names: short forms d x r, long forms
ShortBaseNames ==
    { [spelling |-> <<"d">>, base |-> "dec"],
      [spelling |-> <<"x">>, base |-> "hex"],
      [spelling |-> <<"r">>, base |-> "roman"] }

LongBaseNames ==
    { [spelling |-> <<"d","e","c">>, base |-> "dec"],
      [spelling |-> <<"h","e","x">>, base |-> "hex"],
      [spelling |-> <<"H","E","X">>, base |-> "HEX"],
      [spelling |-> <<"r","o","m","a","n">>, base |-> "roman"],
      [spelling |-> <<"R","O","M","A","N">>, base |-> "ROMAN"] }

\* C13: parse gives a number generator the base its spelling names:
\* {number:Nd} dec, {number:Nx} hex, {number:Nr} roman, and after a comma
\* dec -> dec, hex -> hex, HEX -> HEX, roman -> roman, ROMAN -> ROMAN
C13_BaseOfTheSameName ==
    op = "parse" =>
        \A n \in DigitStrings :
            /\ \A e \in ShortBaseNames :
                  input = Placeholder(Number \o <<":">> \o n \o e.spelling)
                  => (parsed.ok /\ parsed.elements[1].base = e.base)
            /\ \A e \in LongBaseNames, w \in Blanks :
                  input = Placeholder(Number \o <<":">> \o n \o <<",">> \o w \o e.spelling)
                  => (parsed.ok /\ parsed.elements[1].base = e.base)

RECURSIVE Numeral(_)
\* the number a string of decimal digits denotes
Numeral(ds) ==
    IF ds = <<>> THEN 0
    ELSE Numeral(SubSeq(ds, 1, Len(ds) - 1)) * 10
         + (CHOOSE v \in 0..9 : <<"0","1","2","3","4","5","6","7","8","9">>[v + 1] = ds[Len(ds)])

\* the special-character generators of a parse result
SpecialGens == {i \in DOMAIN parsed.elements : parsed.elements[i].type = "special"}

\* C15: every special generator parse produces has minLength <= maxLength;
\* {special:n} gives minLength = maxLength = n, {special:a-b} gives (a, b)
\* when a <= b and is rejected when a > b
C15_SpecialRangeOrdered ==
    op = "parse" =>
        /\ parsed.ok =>
              \A i \in SpecialGens :
                  parsed.elements[i].minLength <= parsed.elements[i].maxLength
        /\ \A a \in DigitStrings :
              input = Placeholder(Special \o <<":">> \o a)
              => /\ parsed.ok
                 /\ parsed.elements[1].minLength = Numeral(a)
                 /\ parsed.elements[1].maxLength = Numeral(a)
        /\ \A a \in DigitStrings, b \in DigitStrings :
              input = Placeholder(Special \o <<":">> \o a \o <<"-">> \o b)
              => IF Numeral(a) <= Numeral(b)
                 THEN /\ parsed.ok
                      /\ parsed.elements[1].minLength = Numeral(a)
                      /\ parsed.elements[1].maxLength = Numeral(b)
                 ELSE ~parsed.ok

\* an accepted range with two different bounds
C15_Witness ==
    /\ op = "parse"
    /\ parsed.ok
    /\ \E a \in DigitStrings, b \in DigitStrings :
          input = Placeholder(Special \o <<":">> \o a \o <<"-">> \o b)
    /\ parsed.elements[1].minLength < parsed.elements[1].maxLength

\* C16: every special generator parse produces has minLength >= 1 and
\* maxLength >= 1
C16_SpecialLengthsPositive ==
    (op = "parse" /\ parsed.ok) =>
        \A i \in SpecialGens :
            parsed.elements[i].minLength >= 1 /\ parsed.elements[i].maxLength >= 1

(***************************************************************************)
(* Settings: inputs made of one selector with a settings body, or of one   *)
(* global-settings block, the body built from tags, a size limit, an       *)
(* option, commas and blanks (SpecSettings)                                *)
(***************************************************************************)
SettingsTokens ==
    { <<"+","a">>, <<"-","a">>, <<"+","b">>, <<">","5">>, <<",">>, <<" ">>,
      <<"k","=","v">> }

MaxSettingsTokens == 3

SettingsBodies == TokenStrings(SettingsTokens, MaxSettingsTokens)

SelectorOpening == Open(Noun) \o <<":">>

SettingsInputs ==
    {SelectorOpening \o body \o <<"}">> : body \in SettingsBodies}
    \cup {<<"[">> \o body \o <<"]">> : body \in SettingsBodies}

InitSettings == InitWith(SettingsInputs)

NextSettings == DoParse \/ DoParsePartial

SpecSettings == InitSettings /\ [][NextSettings]_vars

(***************************************************************************)
(* Properties of the settings (SpecSettings)                               *)
(***************************************************************************)
NoDuplicates(seq) == \A i \in DOMAIN seq, j \in DOMAIN seq : i # j => seq[i] # seq[j]

\* the tag lists of the selectors and of the global settings of a parse result
TagLists ==
    {parsed.elements[i].includeTags \o parsed.elements[i].excludeTags :
        i \in {j \in DOMAIN parsed.elements : parsed.elements[j].type = "selector"}}
    \cup {parsed.globalSettings[i].includeTags \o parsed.globalSettings[i].excludeTags :
             i \in DOMAIN parsed.globalSettings}

\* C14: in every selector and in the global settings that parse produces, no
\* tag name occurs twice in includeTags and excludeTags taken together
C14_TagsOccurOnce ==
    (op = "parse" /\ parsed.ok) => \A tags \in TagLists : NoDuplicates(tags)

\* the settings body of an input of SettingsInputs
SettingsBodyOf(s) ==
    IF s[1] = "[" THEN SubSeq(s, 2, Len(s) - 1)
    ELSE SubSeq(s, Len(SelectorOpening) + 1, Len(s) - 1)

\* an option key=value at position i of a body
OptionAt(body, i) ==
    /\ body[i] = "="
    /\ 1 < i /\ i < Len(body)
    /\ body[i - 1] \in WordChars
    /\ body[i + 1] \in WordChars

\* a body without comma in which a tag or a size limit precedes an option
BareOptionAfterTagOrSize(body) ==
    /\ \A i \in DOMAIN body : body[i] # ","
    /\ \E i \in DOMAIN body :
          /\ OptionAt(body, i)
          /\ \E j \in 1..(i - 1) : body[j] \in {"+", "-", "<", ">", "!"}

\* C17: in a selector body and in global settings, an option without a comma
\* before it is accepted when it comes first, and rejected when a tag
\* (included or excluded) or a size limit comes before it
C17_BareOptionsOnlyFirst ==
    op = "parse" =>
        /\ SettingsBodyOf(input) = <<"k","=","v">> => parsed.ok
        /\ BareOptionAfterTagOrSize(SettingsBodyOf(input)) => ~parsed.ok

(***************************************************************************)
(* Properties of literal text (SpecParse)                                  *)
(***************************************************************************)
\* the first position from i on that holds c, 0 if there is none
NextOf(s, i, c) ==
    IF \E j \in i..Len(s) : s[j] = c
    THEN CHOOSE j \in i..Len(s) : s[j] = c /\ \A k \in i..(j - 1) : s[k] # c
    ELSE 0

RECURSIVE ReadText(_, _, _, _)
\* A reading of the literal text of a pattern, left to right from position i
\* (1-based); a placeholder is taken to run from its { to the next }, the
\* settings block from its [ to the end.
\*   error      - the text holds a bare } or ], a backslash at the end, or a
\*                backslash before a character other than { } \
\*   unfinished - a { has no } after it
\*   chunks     - the pieces of text before, between and after placeholders
\*   plain      - the pattern has neither placeholder nor settings block
ReadText(s, i, start, chunks) ==
    IF i > Len(s)
    THEN [error |-> FALSE, unfinished |-> FALSE, plain |-> chunks = <<>>,
          chunks |-> Append(chunks, SubSeq(s, start, Len(s)))]
    ELSE IF s[i] = "\\"
    THEN IF i = Len(s) \/ s[i + 1] \notin {"{", "}", "\\"}
         THEN [error |-> TRUE, unfinished |-> FALSE, plain |-> FALSE, chunks |-> <<>>]
         ELSE ReadText(s, i + 2, start, chunks)
    ELSE IF s[i] \in {"}", "]"}
    THEN [error |-> TRUE, unfinished |-> FALSE, plain |-> FALSE, chunks |-> <<>>]
    ELSE IF s[i] = "{"
    THEN IF NextOf(s, i, "}") = 0
         THEN [error |-> FALSE, unfinished |-> TRUE, plain |-> FALSE, chunks |-> <<>>]
         ELSE ReadText(s, NextOf(s, i, "}") + 1, NextOf(s, i, "}") + 1,
                       Append(chunks, SubSeq(s, start, i - 1)))
    ELSE IF s[i] = "["
    THEN [error |-> FALSE, unfinished |-> FALSE, plain |-> FALSE,
          chunks |-> Append(chunks, SubSeq(s, start, i - 1))]
    ELSE ReadText(s, i + 1, start, chunks)

\* C18: outside placeholders and the settings block, parse rejects an input
\* with a bare }, a bare ], a backslash at the end or a backslash before a
\* character other than { } \; text with the escapes \{ \} \\ is accepted,
\* and the text chunks of an accepted input are its pieces of text as
\* written, backslashes included
C18_TextAndEscapes ==
    op = "parse" =>
        Let(ReadText(input, 1, 1, <<>>), LAMBDA text :
            /\ text.error => ~parsed.ok
            /\ (text.plain /\ ~text.error) => parsed.ok
            /\ parsed.ok => (~text.error /\ ~text.unfinished
                             /\ parsed.textChunks = text.chunks))

\* an accepted input with a placeholder and an escape in its text
C18_Witness ==
    /\ op = "parse"
    /\ parsed.ok
    /\ Len(parsed.elements) >= 1
    /\ \E i \in DOMAIN parsed.textChunks :
          \E j \in DOMAIN parsed.textChunks[i] : parsed.textChunks[i][j] = "\\"
    /\ parsed.textChunks = ReadText(input, 1, 1, <<>>).chunks

(***************************************************************************)
(* Properties of the errors of parse (SpecGenerators)                      *)
(***************************************************************************)
\* C19: every error parse raises names the 0-based position in the input at
\* which the violation was detected
C19_ErrorsCarryPosition ==
    (op = "parse" /\ ~parsed.ok) => (parsed.at >= 0 /\ parsed.at <= Len(input))

(***************************************************************************)
(* Prefixes that end in an unfinished placeholder after complete ones      *)
(* (SpecPrefix)                                                            *)
(***************************************************************************)
MaxPreceding == 2

\* complete placeholders, and a piece of text
CompletePlaceholders ==
    { <<"{","n","o","u","n","}">>,
      <<"{","n","u","m","b","e","r",":","5","x","}">>,
      <<"{","V","e","r","b","@","e","n",":","+","a"," ",">","5","}">>,
      <<"-">> }

\* one to MaxPreceding complete placeholders, a piece of text among them or not
PrecedingInputs == TokenStrings(CompletePlaceholders, MaxPreceding) \ {<<>>, <<"-">>}

\* unfinished placeholders, one or more for each state of the partial parser
UnfinishedPlaceholders ==
    { <<"{","n","_","1">>,
      <<"{","n","o","u","n","@">>,
      <<"{","n","o","u","n","@","e","n">>,
      <<"{","n","o","u","n",":">>,
      <<"{","n","o","u","n",":"," ">>,
      <<"{","n","o","u","n",":","+">>,
      <<"{","n","o","u","n",":","-">>,
      <<"{","n","o","u","n",":",">">>,
      <<"{","n","o","u","n",":",">","5">>,
      <<"{","n","o","u","n",":","+","a"," ",">","5">>,
      <<"{","n","u","m","b","e","r",":">>,
      <<"{","n","u","m","b","e","r",":","5">>,
      <<"{","s","p","e","c","i","a","l",":">>,
      <<"{","s","p","e","c","i","a","l",":","3","-">> }

\* a well-formed prefix: complete placeholders, then an unfinished one
PrefixInputs == {pre \o last : pre \in PrecedingInputs, last \in UnfinishedPlaceholders}

InitPrefix == InitWith(PrefixInputs)

NextPrefix == DoParsePartial

SpecPrefix == InitPrefix /\ [][NextPrefix]_vars

(***************************************************************************)
(* Properties of the partial parser on such prefixes (SpecPrefix)          *)
(***************************************************************************)
\* the position (1-based) of the { of the last placeholder of s
LastOpening(s) == CHOOSE i \in DOMAIN s : s[i] = "{" /\ \A j \in (i + 1)..Len(s) : s[j] # "{"

\* the unfinished placeholder s ends in, without what precedes it
LastPlaceholder(s) == SubSeq(s, LastOpening(s), Len(s))

\* C20: on a well-formed prefix that ends inside an unfinished placeholder
\* after one or more complete placeholders, parsePartial consumes the whole
\* input and reports the state of the unfinished placeholder: the context,
\* expected tokens, partial element and validity it reports for that
\* placeholder alone
C20_StateOfLastPlaceholder ==
    (op = "parsePartial" /\ LastOpening(input) > 1) =>
        Let(ParsePartial(LastPlaceholder(input)), LAMBDA alone :
            /\ partial.position = Len(input)
            /\ partial.context = alone.context
            /\ partial.expectedNext = alone.expectedNext
            /\ partial.partialElement = alone.partialElement
            /\ partial.isValid = alone.isValid)

(***************************************************************************)
(* Regions of a placeholder (SpecSuggest)                                  *)
(***************************************************************************)
\* the offset of the cursor within the text of the placeholder around it
RelativeCursor(p, c) == c - LastOf(BracesBefore(p, c))

\* the cursor is not strictly after the first colon of the placeholder
AtOrBeforeColon(p, c) ==
    \/ IndexOfChar(EnclosingText(p, c), ":") = -1
    \/ RelativeCursor(p, c) <= IndexOfChar(EnclosingText(p, c), ":")

\* C21: when the placeholder content has no colon, or the offset of the cursor
\* within it is at most the index of the first colon, getSuggestions answers
\* with the generator-name suggestions for the text between { and the cursor;
\* settings suggestions come only with the cursor strictly after the colon
C21_GeneratorNameRegion ==
    (/\ op = "getSuggestions"
     /\ ~OutsidePlaceholder(input, cursor)
     /\ AtOrBeforeColon(input, cursor)) =>
        suggestions = GetGeneratorNameSuggestions(AnalyzeContext(input, cursor))

\* the text of the placeholder around the cursor that lies before the cursor
TextBeforeCursor(p, c) == SubSeq(p, LastOf(BracesBefore(p, c)) + 1, Min(c, Len(p)))

\* the word characters at the end of t
TrailingWord(t) ==
    SubSeq(t, FirstOf({i \in 1..(Len(t) + 1) : AllIn(SubSeq(t, i, Len(t)), WordChars)}), Len(t))

\* the partial tag typed at the cursor: the word characters between the
\* nearest preceding + or - and the cursor, empty when there are none
TypedTag(p, c) ==
    IF /\ Len(TrailingWord(TextBeforeCursor(p, c))) < Len(TextBeforeCursor(p, c))
       /\ TextBeforeCursor(p, c)[Len(TextBeforeCursor(p, c))
                                 - Len(TrailingWord(TextBeforeCursor(p, c)))] \in TagMarkChars
    THEN TrailingWord(TextBeforeCursor(p, c))
    ELSE <<>>

\* C22: the replace range of every tag-type suggestion starts at the cursor
\* minus the length of the partial tag typed before the cursor and ends at the
\* cursor (zero-width when no partial tag is typed), whatever text follows the
\* cursor inside the placeholder
C22_TagReplaceRange ==
    (op = "getSuggestions" /\ ~OutsidePlaceholder(input, cursor)) =>
        \A i \in 1..Len(suggestions) :
            suggestions[i].type = "tag" =>
                suggestions[i].replaceRange =
                    [start |-> cursor - Len(TypedTag(input, cursor)), end |-> cursor]

(***************************************************************************)
(* The settings of a dictionary selector at a blank (SpecBlank): a         *)
(* selector opening followed by tags, tag marks, blanks and tabs, with the *)
(* cursor anywhere                                                         *)
(***************************************************************************)
MaxBlankTokens == 3

BlankTokens ==
    { <<"+","m","o","t","i","o","n">>, <<"-","m">>, <<"+">>, <<">">>,
      <<" ">>, <<"\t">>, <<"}">> }

BlankInputs ==
    {<<"{","v","e","r","b",":">> \o t : t \in TokenStrings(BlankTokens, MaxBlankTokens)}

InitBlank == InitWith(BlankInputs)

NextBlank == DoGetSuggestions

SpecBlank == InitBlank /\ [][NextBlank]_vars

\* the settings text of the placeholder around the cursor that lies before
\* the cursor, for a cursor strictly after the first colon
SettingsBeforeCursor(p, c) ==
    SubstringFrom(TextBeforeCursor(p, c), IndexOfChar(EnclosingText(p, c), ":") + 1)

\* the cursor is after the colon of a dictionary selector with no size
\* constraint in its settings
InPlainSelectorSettings(p, c) ==
    /\ ~OutsidePlaceholder(p, c)
    /\ IndexOfChar(EnclosingText(p, c), ":") # -1
    /\ Substring(EnclosingText(p, c), 0, IndexOfChar(EnclosingText(p, c), ":"))
           \notin {Number, Special}
    /\ RelativeCursor(p, c) > IndexOfChar(EnclosingText(p, c), ":")
    /\ ~HasOperatorAndDigits(EnclosingSettings(p, c))

EmptyOrEndsInWhitespace(t) == t = <<>> \/ t[Len(t)] \in SpaceChars

TextsOf(list) == [i \in 1..Len(list) |-> list[i].text]

TagOrSizeOrCloseTexts ==
    << <<"+">>, <<"-">> >> \o CompareOperatorTexts \o << <<"}">> >>

\* C23: for a dictionary selector without a size constraint, with the cursor
\* after the colon and the settings text before the cursor empty or ending in
\* whitespace, getSuggestions returns exactly + - == != < <= > >= }, whether
\* or not completed tags precede the cursor
C23_AllOptionsAtBlank ==
    (/\ op = "getSuggestions"
     /\ InPlainSelectorSettings(input, cursor)
     /\ EmptyOrEndsInWhitespace(SettingsBeforeCursor(input, cursor))) =>
        TextsOf(suggestions) = TagOrSizeOrCloseTexts

(***************************************************************************)
(* Completion of a generator name (SpecCasing): a placeholder opened with  *)
(* the first letters of a generator name in every casing                   *)
(***************************************************************************)
MaxPrefix == 4

RECURSIVE CaseVariants(_)
\* the spellings of the word w in every mix of upper and lower case
CaseVariants(w) ==
    IF Len(w) = 0 THEN {<<>>}
    ELSE {<<c>> \o v : c \in {ToLowerChar(w[1]), ToUpperChar(w[1])},
                       v \in CaseVariants(Tail(w))}

GeneratorNames == Dictionaries \o <<Number, Special>>

TypedPrefixes ==
    UNION {UNION {CaseVariants(SubSeq(GeneratorNames[g], 1, n)) :
                      n \in {k \in 1..MaxPrefix : k <= Len(GeneratorNames[g])}} :
               g \in 1..Len(GeneratorNames)}

CasingInputs ==
    {<<"{">> \o s \o rest : s \in TypedPrefixes, rest \in {<<>>, <<"}">>, <<":">>}}

InitCasing == InitWith(CasingInputs)

NextCasing == DoGetSuggestions

SpecCasing == InitCasing /\ [][NextCasing]_vars

\* the cursor is strictly before the colon of the placeholder, if it has one
BeforeColon(p, c) ==
    \/ IndexOfChar(EnclosingText(p, c), ":") = -1
    \/ RelativeCursor(p, c) < IndexOfChar(EnclosingText(p, c), ":")

\* letters of both cases, and not one capital followed by lowercase letters
MixedCaseWord(s) ==
    /\ Len(s) >= 2
    /\ AllIn(s, LowerSet \cup UpperSet)
    /\ \E i \in 1..Len(s) : s[i] \in LowerSet
    /\ \E i \in 1..Len(s) : s[i] \in UpperSet
    /\ ~(s[1] \in UpperSet /\ AllIn(Tail(s), LowerSet))

\* t spells k, begins with s as typed, and goes on alternating in case from
\* the case opposite to that of the last character of s
ContinuesPattern(t, s, k) ==
    /\ ToLowerCase(t) = ToLowerCase(k)
    /\ SubSeq(t, 1, Len(s)) = s
    /\ \A j \in (Len(s) + 1)..Len(t) :
          (t[j] \in UpperSet) <=> ((s[Len(s)] \in UpperSet) <=> ((j - Len(s)) % 2 = 0))

\* C24: for a mixed-case alphabetic input s of two or more characters that
\* is a case-insensitive prefix of a dictionary kind k, the completion
\* offered for k spells k, keeps s as typed in its first len(s) characters
\* and alternates in case afterwards, starting opposite to the last
\* character of s
C24_MixedCaseCompletion ==
    (/\ op = "getSuggestions"
     /\ ~OutsidePlaceholder(input, cursor)
     /\ BeforeColon(input, cursor)
     /\ MixedCaseWord(TextBeforeCursor(input, cursor))) =>
        \A d \in 1..Len(Dictionaries) :
            (/\ IsPrefixOf(ToLowerCase(TextBeforeCursor(input, cursor)),
                           ToLowerCase(Dictionaries[d]))
             /\ Len(TextBeforeCursor(input, cursor)) < Len(Dictionaries[d])) =>
                /\ \E i \in 1..Len(suggestions) :
                      /\ suggestions[i].type = "generator"
                      /\ ToLowerCase(suggestions[i].text) = ToLowerCase(Dictionaries[d])
                /\ \A i \in 1..Len(suggestions) :
                      (/\ suggestions[i].type = "generator"
                       /\ ToLowerCase(suggestions[i].text) = ToLowerCase(Dictionaries[d])) =>
                          ContinuesPattern(suggestions[i].text,
                                           TextBeforeCursor(input, cursor),
                                           Dictionaries[d])

\* aD is completed to aDjEcTiVe and to aDvErB
C24_Witness ==
    /\ op = "getSuggestions"
    /\ ~OutsidePlaceholder(input, cursor)
    /\ TextBeforeCursor(input, cursor) = <<"a","D">>
    /\ TextsOf(suggestions) =
           << <<"a","D","j","E","c","T","i","V","e">>, <<"a","D","v","E","r","B">> >>

\* the generator suggestions of a list, in the order of the list
GeneratorTexts(list) ==
    SelectSeqBy(TextsOf(list), [i \in 1..Len(list) |-> list[i].type = "generator"])

\* the case group of a suggestion text
CaseGroup(t) ==
    IF t \in {Number, Special} THEN 0
    ELSE IF AllIn(t, LowerSet) THEN 1
    ELSE IF AllIn(t, UpperSet) THEN 2
    ELSE IF t[1] \in UpperSet /\ AllIn(Tail(t), LowerSet) THEN 3
    ELSE 4

\* the character code of a letter: capitals before lowercase letters
CharCode(c) ==
    IF c \in UpperSet THEN 65 + LetterIndex[ToLowerChar(c)]
    ELSE IF c \in LowerSet THEN 97 + LetterIndex[c]
    ELSE 0

\* a is before b, or equal to it, in lexicographic order
LexicographicLeq(a, b) ==
    IF FirstCaseDifference(a, b, 1) = 0 THEN Len(a) <= Len(b)
    ELSE CharCode(a[FirstCaseDifference(a, b, 1)]) < CharCode(b[FirstCaseDifference(a, b, 1)])

OrderedByCasing(texts) ==
    \A i \in 1..Len(texts) : \A j \in (i + 1)..Len(texts) :
        \/ CaseGroup(texts[i]) < CaseGroup(texts[j])
        \/ /\ CaseGroup(texts[i]) = CaseGroup(texts[j])
           /\ LexicographicLeq(texts[i], texts[j])

\* C25: the generator suggestions returned in generator-name mode are in
\* non-decreasing case group (0 number and special, 1 lowercase, 2 uppercase,
\* 3 Titlecase, 4 mixed) and in lexicographic order within a group
C25_GeneratorsOrdered ==
    (/\ op = "getSuggestions"
     /\ ~OutsidePlaceholder(input, cursor)
     /\ BeforeColon(input, cursor)) =>
        OrderedByCasing(GeneratorTexts(suggestions))

\* a list holding generators of all five groups
C25_Witness ==
    /\ op = "getSuggestions"
    /\ ~OutsidePlaceholder(input, cursor)
    /\ BeforeColon(input, cursor)
    /\ {CaseGroup(GeneratorTexts(suggestions)[i]) :
           i \in 1..Len(GeneratorTexts(suggestions))} = 0..4
    /\ Len(GeneratorTexts(suggestions)) > 5

(***************************************************************************)
(* The partial parser against the full parser                              *)
(***************************************************************************)
\* s ends inside a placeholder: its last brace is an opening one
EndsInsidePlaceholder(s) == ~OutsidePlaceholder(s, Len(s))

\* C26: for every prefix p that ends inside a placeholder, close_brace is in
\* parsePartial(p).expectedNext exactly when parse accepts p followed by }
C26_CloseBraceExpectedIffAccepted ==
    (op = "parsePartial" /\ EndsInsidePlaceholder(input)) =>
        (Includes(partial.expectedNext, "close_brace") <=> Parse(input \o <<"}">>).ok)

(***************************************************************************)
(* A tag after the size limit of a selector (SpecTagAfterSize)             *)
(***************************************************************************)
TagNames == { <<"a">>, <<"t","_","1">> }

\* {k:op n, the size limit complete
SizeLimitGiven ==
    {Open(k) \o <<":">> \o o \o n :
        k \in Range(Dictionaries), o \in CompareOperators, n \in DigitStrings}

\* {k:op n +t}
TagAfterSizeLimit ==
    {p \o <<" ", "+">> \o t \o <<"}">> : p \in SizeLimitGiven, t \in TagNames}

InitTagAfterSize == InitWith(TagAfterSizeLimit)

NextTagAfterSize == DoParse \/ DoParsePartial

SpecTagAfterSize == InitTagAfterSize /\ [][NextTagAfterSize]_vars

\* C27: for every dictionary kind k, comparison operator op, number n and
\* tag t, parse accepts the pattern {k:op n +t}, a tag after the size limit
C27_TagAfterSizeLimitAccepted ==
    (op = "parse" /\ input \in TagAfterSizeLimit) => parsed.ok

(***************************************************************************)
(* The suggestions for a number generator against the full parser          *)
(* (SpecNumberBase)                                                        *)
(***************************************************************************)
\* {number:<digits>, alone or followed by a base letter or a closing brace
NumberSettingsInputs ==
    {p \o rest : p \in NumberBaseInputs,
                 rest \in {<<>>, <<"}">>, <<"d">>, <<"x">>, <<"X">>, <<"r">>, <<"R">>}}

InitNumberBase == InitWith(NumberSettingsInputs)

NextNumberBase == DoGetSuggestions

SpecNumberBase == InitNumberBase /\ [][NextNumberBase]_vars

\* the pattern p with the suggestion put in place of its replace range
Inserted(p, suggestion) ==
    Substring(p, 0, suggestion.replaceRange.start)
    \o suggestion.text
    \o SubstringFrom(p, suggestion.replaceRange.end)

\* C28: every base-type suggestion b that getSuggestions returns for
\* {number:<digits> with the cursor at the end gives, when inserted and
\* followed by }, a pattern {number:<digits>b} that parse accepts
C28_SuggestedBasesAccepted ==
    (/\ op = "getSuggestions"
     /\ input \in NumberBaseInputs
     /\ cursor = Len(input)) =>
        \A i \in 1..Len(suggestions) :
            suggestions[i].type = "base" =>
                Parse(Inserted(input, suggestions[i]) \o <<"}">>).ok

(***************************************************************************)
(* Overlapping calls on a fresh instance (SpecCache)                       *)
(***************************************************************************)
\* C29: when the second call of getDictionaries (respectively
\* getDictionaryTags) on a fresh instance begins before the backend request
\* of the first has resolved, at most one backend request is issued
C29_OneRequestForOverlappingCalls ==
    [][\A i \in Begun :
          (/\ i = 2
           /\ calls[1].method = calls'[2].method
           /\ calls[1].pc = "fetch"
           /\ calls[1].response = <<>>)
          => Len(fetchCalls') <= 1]_vars

(***************************************************************************)
(* The key refresh of a SlugKit instance made by fromBackend.  `created`   *)
(* tells how fromBackend ended ("no": not called yet, "yes": it returned   *)
(* the instance, "rejected": it threw).  refreshTimeout is the field: null *)
(* or one timer, a record                                                  *)
(*   pending     - set by setTimeout and not fired yet                     *)
(*   delay       - what calculateRefreshTime chose                         *)
(*   fallbackJwk - the argument the callback passes to refresh             *)
(* refreshes lists the calls of refresh, each with the fallbackJwk it was  *)
(* called with and its position: "fetchSdkKey" while it awaits the key,    *)
(* then how it ended.  The key material itself is not modelled.            *)
(***************************************************************************)
MaxRefreshes == 3

\* the fallbackJwk argument: absent, a key that imports, a key that does not
FallbackJwks == {"undefined", "valid", "invalid"}

\* effective_to of an SDK key: none, less than 30 minutes away, or more
EffectiveTos == {"null", "near", "far"}

\* how `await SlugKit.fetchSdkKey(...)` and the import of its key end: with a
\* key, or with an error (request failed, no valid key, key not importable)
SdkKeyOutcomes ==
    {[ok |-> TRUE, effective_to |-> e] : e \in EffectiveTos}
    \cup {[ok |-> FALSE, effective_to |-> "null"]}

\* calculateRefreshTime(effectiveTo): in 30 minutes, or 2 minutes before expiry
CalculateRefreshTime(effectiveTo) ==
    IF effectiveTo = "near" THEN "before_expiry" ELSE "in_30_minutes"

\* scheduleRefresh(effectiveTo, fallbackJwk): the value of refreshTimeout
\* afterwards; the timer held before is cleared and replaced
ScheduleRefresh(effectiveTo, fallbackJwk) ==
    << [pending     |-> TRUE,
        delay       |-> CalculateRefreshTime(effectiveTo),
        fallbackJwk |-> fallbackJwk] >>

TimerPending == refreshTimeout # <<>> /\ refreshTimeout[1].pending

\* SlugKit.fromBackend(backend, sdkSlug, fallbackJwk)
FromBackend ==
    /\ created = "no"
    /\ \E key \in SdkKeyOutcomes, fallbackJwk \in FallbackJwks :
          IF key.ok
          THEN /\ created' = "yes"
               /\ refreshTimeout' = ScheduleRefresh(key.effective_to, fallbackJwk)
          ELSE IF fallbackJwk = "valid"
          THEN /\ created' = "yes"
               /\ refreshTimeout' = ScheduleRefresh("null", fallbackJwk)
          ELSE /\ created' = "rejected"
               /\ UNCHANGED refreshTimeout
    /\ UNCHANGED refreshes
    /\ UNCHANGED <<dictionariesCache, dictionaryTagsCache, calls, fetchCalls>>
    /\ UNCHANGED <<input, cursor, op, parsed, partial, complete, validPrefix, suggestions>>

\* a call of refresh(fallbackJwk), at its first await
BeginRefresh(origin, fallbackJwk) ==
    [origin |-> origin, fallbackJwk |-> fallbackJwk, pc |-> "fetchSdkKey"]

\* the timer fires: () => this.refresh(fallbackJwk)
RefreshOnTimer ==
    /\ created = "yes"
    /\ TimerPending
    /\ Len(refreshes) < MaxRefreshes
    /\ refreshTimeout' = << [refreshTimeout[1] EXCEPT !.pending = FALSE] >>
    /\ refreshes' = Append(refreshes, BeginRefresh("timer", refreshTimeout[1].fallbackJwk))
    /\ UNCHANGED created
    /\ UNCHANGED <<dictionariesCache, dictionaryTagsCache, calls, fetchCalls>>
    /\ UNCHANGED <<input, cursor, op, parsed, partial, complete, validPrefix, suggestions>>

\* a request of the instance is answered with 403: await this.refresh(undefined)
RefreshOn403 ==
    /\ created = "yes"
    /\ Len(refreshes) < MaxRefreshes
    /\ refreshes' = Append(refreshes, BeginRefresh("403", "undefined"))
    /\ UNCHANGED <<created, refreshTimeout>>
    /\ UNCHANGED <<dictionariesCache, dictionaryTagsCache, calls, fetchCalls>>
    /\ UNCHANGED <<input, cursor, op, parsed, partial, complete, validPrefix, suggestions>>

\* refresh resumes after `await SlugKit.fetchSdkKey(...)`: with a key it
\* schedules the next refresh; in the catch block it does so only with a
\* fallbackJwk, after importing it
AfterFetchSdkKey ==
    /\ \E i \in DOMAIN refreshes, key \in SdkKeyOutcomes :
          /\ refreshes[i].pc = "fetchSdkKey"
          /\ IF key.ok
             THEN /\ refreshes' = [refreshes EXCEPT ![i].pc = "refreshed"]
                  /\ refreshTimeout' =
                        ScheduleRefresh(key.effective_to, refreshes[i].fallbackJwk)
             ELSE IF refreshes[i].fallbackJwk = "undefined"
             THEN /\ refreshes' = [refreshes EXCEPT ![i].pc = "failed"]
                  /\ UNCHANGED refreshTimeout
             ELSE IF refreshes[i].fallbackJwk = "valid"
             THEN /\ refreshes' = [refreshes EXCEPT ![i].pc = "fallback"]
                  /\ refreshTimeout' = ScheduleRefresh("null", refreshes[i].fallbackJwk)
             ELSE /\ refreshes' = [refreshes EXCEPT ![i].pc = "rejected"]
                  /\ UNCHANGED refreshTimeout
    /\ UNCHANGED created
    /\ UNCHANGED <<dictionariesCache, dictionaryTagsCache, calls, fetchCalls>>
    /\ UNCHANGED <<input, cursor, op, parsed, partial, complete, validPrefix, suggestions>>

InitRefresh == InitWith({<<>>})

NextRefresh == FromBackend \/ RefreshOnTimer \/ RefreshOn403 \/ AfterFetchSdkKey

\* a pending timer fires and an awaited fetchSdkKey settles; whether a
\* request is ever answered with 403 is up to the backend
SpecRefresh ==
    /\ InitRefresh
    /\ [][NextRefresh]_vars
    /\ WF_vars(RefreshOnTimer)
    /\ WF_vars(AfterFetchSdkKey)

\* the calls of refresh that complete in this step
Completing ==
    {i \in DOMAIN refreshes :
        refreshes[i].pc = "fetchSdkKey" /\ refreshes'[i].pc # "fetchSdkKey"}

\* C30: for an instance created by fromBackend, when a refresh attempt
\* completes (with or without success, begun by the timer or by a 403
\* response) a next refresh is scheduled: a refresh timer is pending again
C30_RefreshAlwaysRescheduled ==
    [][(created = "yes" /\ Completing # {}) => TimerPending']_vars

====
